---- MODULE Spec2Model ----
(***************************************************************************)
(* Model of the orchestration engine (src/src/services/                    *)
(* orchestration-engine.ts): the flow registry, addOrchestrationStep,      *)
(* executeFlow with its suspension points, suggestOrchestration and        *)
(* deleteFlow.                                                             *)
(*                                                                         *)
(* JavaScript runs one synchronous block at a time; an async function      *)
(* gives up control only at an `await`.  Each action below is one such     *)
(* synchronous block.  Objects are kept in a heap (`heap`), because a      *)
(* suspended executeFlow holds a reference to its flow object, not its id. *)
(* Date.now() is the variable `now`, which the environment may advance     *)
(* between any two blocks (Tick).                                          *)
(***************************************************************************)
EXTENDS Integers, Sequences, FiniteSets, TLC

\* ------------------------------------------------------------------ bounds
MaxSteps == 3      \* step objects created in one behaviour of SpecExec
MaxFlows == 2      \* flow objects created in one behaviour of Spec
MaxNodes == 3      \* vectors in the list a graph is built from

\* The readings of Date.now() in Spec (SpecExec keeps the clock at 0: with a
\* single flow no id is ever compared with another).
Times == {0, 1}
\* Step objects created in one behaviour of Spec.
RegistrySteps == {1, 2}
\* The executeFlow invocations: exec has an entry for each.
Passes == {1, 2}
\* The `order` values addOrchestrationStep is called with.
Orders == {0, 1}

\* ------------------------------------------------------------ descriptors
\* Two of the descriptors api-discovery.ts knows (APIConfig, cut to the
\* fields the engine reads).
OpenAI == [id |-> "openai", type |-> "ai",
           capabilities |-> <<"text-generation", "embeddings", "chat">>]
GitHub == [id |-> "github", type |-> "version-control",
           capabilities |-> <<"repository-management", "user-management", "webhook">>]

HuggingFace == [id |-> "hugging face", type |-> "ai",
                capabilities |-> <<"text-generation", "embeddings", "classification">>]
GitLab == [id |-> "gitlab", type |-> "version-control",
           capabilities |-> <<"repository-management", "ci-cd", "user-management">>]

\* What discoverAPIs finds, in the order of the env files' lines.
DiscoveryLists == {<< >>, <<OpenAI>>, <<GitLab>>, <<OpenAI, GitHub>>,
                   <<GitLab, GitHub, HuggingFace, OpenAI>>, <<GitHub, OpenAI, HuggingFace>>}

\* The arguments findOptimalRoute is called with.
RouteIds == {"openai", "github", "gitlab"}
RouteCapabilities == {"repository-management", "embeddings", "payments"}

\* Descriptor lists handed to the engine (by a caller, or by discoverAPIs).
ApiLists == {<< >>, <<OpenAI, GitHub>>}

\* apis.map(api => api.id)
MapIds(apis) == [i \in 1..Len(apis) |-> apis[i].id]

\* Flow names a caller passes to createOrchestrationFlow (strings are
\* sequences of characters).
Names == {<<"T", "e", "s", "t">>}

\* Steps a caller passes to addOrchestrationStep (Omit<OrchestrationStep,'id'>):
\* an action tag and a payload; "sync" is not an action the engine knows, and
\* a null payload makes queryAPI read a property of null.
StepKinds == {[action |-> "authenticate", payload |-> "object"],
              [action |-> "query", payload |-> "null"],
              [action |-> "sync", payload |-> "object"]}

\* The one kind of step given in Spec.
RegistryKinds == {[action |-> "authenticate", payload |-> "object"]}

StepInputs(kinds, orders) ==
    {[action |-> k.action, apiId |-> "openai", payload |-> k.payload, order |-> o] :
        k \in kinds, o \in orders}

\* The steps addOrchestrationStep is called with in Spec.
RegistryInputs == StepInputs(RegistryKinds, {1})

\* The two flow objects of SpecPair, the steps given to them (one that
\* succeeds, one that fails in its handler) and the step objects created.
PairFlows == {1, 2}
PairKinds == {[action |-> "authenticate", payload |-> "object"],
              [action |-> "query", payload |-> "null"]}
PairInputs == StepInputs(PairKinds, {1})
PairSteps == {1, 2, 3}

\* ------------------------------------------------------------- vectors
\* APIEmbedding records (apiId, embedding, metadata cut to type and
\* capabilities) a graph is built from.  The vectors have integer components;
\* they are chosen for their cosines: 1, 0.96, 0.8, 0.6, 1/sqrt(10), 0.3, 0
\* and negative ones.  Pinecone, Jenkins and Local are a caller's descriptors,
\* the others are among those api-discovery.ts knows.
Embedding(api, vector) ==
    [apiId |-> api.id, embedding |-> vector,
     metadata |-> [type |-> api.type, capabilities |-> api.capabilities]]

Cohere == [id |-> "cohere", type |-> "ai",
           capabilities |-> <<"text-generation", "embeddings", "classification">>]
Pinecone == [id |-> "pinecone", type |-> "storage",
             capabilities |-> <<"storage", "embeddings">>]
Jenkins == [id |-> "jenkins", type |-> "ci-cd", capabilities |-> <<"ci-cd", "webhook">>]
Anthropic == [id |-> "anthropic", type |-> "ai",
              capabilities |-> <<"text-generation", "chat", "analysis">>]
Local == [id |-> "local", type |-> "ai", capabilities |-> <<"text-generation">>]

EmbeddingPool ==
    {Embedding(OpenAI, <<1, 0, 0>>),
     Embedding(HuggingFace, <<4, 3, 0>>),
     Embedding(Cohere, <<3, 4, 0>>),
     Embedding(GitHub, <<1, -3, 0>>),
     Embedding(GitLab, <<0, -1, 3>>),
     Embedding(Pinecone, <<1, 0, 0>>),
     Embedding(Jenkins, <<0, -1, 3>>),
     Embedding(Anthropic, <<0, 0, 0>>),     \* the zero vector
     Embedding(Local, <<1, 0>>)}            \* a vector of another dimension

\* The lists generateGraph is called with: up to MaxNodes records, the same
\* record possibly more than once (a key found in two env files within one
\* millisecond gives two descriptors with one id: api-discovery.ts, line 101).
EmbeddingLists == UNION {[1..n -> EmbeddingPool] : n \in 0..MaxNodes}

\* The vectors calculateSimilarity is called with: of dimensions 0 to 3, zero
\* vectors of each, vectors equal, opposite, orthogonal and in between.
SimilarityVectors ==
    {<< >>, <<0>>, <<1>>, <<-2>>,
     <<0, 0>>, <<1, 1>>, <<1, 2>>, <<-1, 1>>,
     <<0, 0, 0>>, <<1, 1, 1>>, <<-1, -1, -1>>, <<1, 0, 0>>, <<4, 3, 0>>, <<1, -3, 0>>,
     <<0, -1, 3>>}

\* The descriptors generateEmbeddings is called with.  Texts are lists of
\* characters.  `missing` names the fields a descriptor built by a caller
\* lacks: without `capabilities`, createAPIText throws a TypeError.
Chars(n, c) == [i \in 1..n |-> c]

ApiA == [id |-> "a", name |-> <<"A">>, type |-> <<"a", "i">>, description |-> <<"x">>,
         capabilities |-> <<<<"c">>, <<"d", "e">>>>, missing |-> {}]
\* a second descriptor of the same id (api-discovery.ts, line 101)
ApiA2 == [id |-> "a", name |-> <<"A", "a">>, type |-> <<"a", "i">>, description |-> << >>,
          capabilities |-> <<<<"c">>>>, missing |-> {}]
ApiB == [id |-> "b", name |-> <<"B">>, type |-> <<"v", "-", "c">>, description |-> <<"y">>,
         capabilities |-> << >>, missing |-> {}]
\* a descriptor whose text has 407 characters
ApiLong == [id |-> "long", name |-> <<"L">>, type |-> <<"a", "i">>,
            description |-> Chars(370, "a") \o Chars(30, "z"),
            capabilities |-> <<<<"c">>>>, missing |-> {}]
ApiBroken == [id |-> "broken", name |-> <<"N">>, type |-> <<"a", "i">>,
              description |-> <<"x">>, capabilities |-> << >>,
              missing |-> {"capabilities"}]

EmbedApis == {ApiA, ApiA2, ApiB, ApiLong, ApiBroken}

\* The longest list generateEmbeddings is called with.
MaxApis == 2

EmbedLists == UNION {[1..n -> EmbedApis] : n \in 0..MaxApis}

\* The values of the setting apiOrchestrator.embeddingProvider ("": not set).
Providers == {"", "openai", "huggingface", "cohere"}

\* The thresholds of semantic-graph.ts, as fractions <<numerator, denominator>>.
EdgeThreshold == <<3, 10>>
HighSimilarity == <<8, 10>>

\* The step objects created in one behaviour of SpecSuggest.
SuggestSteps == {1, 2, 3, 4}

\* Requirement texts given to suggestOrchestration.
ReqStoreText == <<"S", "t", "o", "r", "e", " ", "T", "E", "X", "T">>
ReqSave == <<"s", "a", "v", "e">>
ReqContent == <<"c", "o", "n", "t", "e", "n", "t">>
ReqOther == <<"h", "i">>
Requirements == {ReqStoreText, ReqSave, ReqContent, ReqOther}

\* --------------------------------------------------------------- strings
UpperCase == <<"A", "B", "C", "D", "E", "F", "G", "H", "I", "J", "K", "L", "M",
               "N", "O", "P", "Q", "R", "S", "T", "U", "V", "W", "X", "Y", "Z">>
LowerCase == <<"a", "b", "c", "d", "e", "f", "g", "h", "i", "j", "k", "l", "m",
               "n", "o", "p", "q", "r", "s", "t", "u", "v", "w", "x", "y", "z">>

\* String.prototype.toLowerCase
ToLowerCase(str) ==
    [i \in 1..Len(str) |->
        IF \E k \in 1..26 : UpperCase[k] = str[i]
        THEN LowerCase[CHOOSE k \in 1..26 : UpperCase[k] = str[i]]
        ELSE str[i]]

\* String.prototype.includes
Includes(str, word) ==
    \E i \in 1..(Len(str) - Len(word) + 1) : SubSeq(str, i, i + Len(word) - 1) = word

\* Array.prototype.includes
ArrayIncludes(arr, x) == \E i \in 1..Len(arr) : arr[i] = x

VARIABLES
    now,          \* Date.now()
    heap,         \* the flow objects ever created, by reference 1..Len(heap)
    activeFlows,  \* the registry: flow id -> reference of the flow object
    nsteps,       \* number of step objects created (the next one's identity)
    exec,         \* the executeFlow invocations, by pass
    sugg,         \* the suggestOrchestration invocation
    added,        \* history: per flow object, the steps added to it, in call order
    addResult,    \* how the last addOrchestrationStep call ended
    route,        \* the findOptimalRoute invocation
    embeddings,   \* the list generateGraph is called with
    graph,        \* what the generateGraph call has built
    simCall,      \* the calculateSimilarity call
    embCall,      \* the generateEmbeddings call
    engineEmbeddings, \* EmbeddingEngine.embeddings: api id -> APIEmbedding
    commandHistory,   \* SymbolicProtocolHandler.commandHistory
    symCalls,         \* the executeSymbol invocations, in call order
    microtasks        \* the invocations whose awaited promise is settled, in
                      \* the order their continuations will run

\* The state of the services that are neither the orchestration engine nor
\* the graph generator.
services == <<simCall, embCall, engineEmbeddings, commandHistory, symCalls, microtasks>>

vars == <<now, heap, activeFlows, nsteps, exec, sugg, added, addResult, route,
          embeddings, graph, services>>

\* What no operation on flows reads or writes.
outside == <<route, embeddings, graph, services>>

Refs == 1..Len(heap)

\* ------------------------------------------------------------- pure parts

\* flow.steps.sort((a, b) => a.order - b.order): Array.prototype.sort is
\* stable; an insertion sort that puts each element after the elements that
\* do not compare greater computes the same list.
InsertByOrder(sorted, x) ==
    LET k == Cardinality({i \in 1..Len(sorted) : sorted[i].order <= x.order})
    IN  SubSeq(sorted, 1, k) \o <<x>> \o SubSeq(sorted, k + 1, Len(sorted))

RECURSIVE SortSteps(_)
SortSteps(steps) ==
    IF steps = << >> THEN << >>
    ELSE InsertByOrder(SortSteps(SubSeq(steps, 1, Len(steps) - 1)), steps[Len(steps)])

\* The handlers: what each returns for a payload.  authenticateAPI reads
\* nothing of the payload; queryAPI, transformData and forwardData read a
\* property of it, which throws a TypeError when the payload is null.
authenticateAPI(payload) == "ok"
queryAPI(payload) == IF payload = "null" THEN "TypeError" ELSE "ok"
transformData(payload) == IF payload = "null" THEN "TypeError" ELSE "ok"
forwardData(payload) == IF payload = "null" THEN "TypeError" ELSE "ok"

KnownActions == {"authenticate", "query", "transform", "forward"}

\* (mutant) the default branch passes an unknown action tag as done.
executeStep_DefaultOk(step) ==
    CASE step.action = "authenticate" -> authenticateAPI(step.payload)
      [] step.action = "query" -> queryAPI(step.payload)
      [] step.action = "transform" -> transformData(step.payload)
      [] step.action = "forward" -> forwardData(step.payload)
      [] OTHER -> "ok"

\* executeStep: dispatch on the action tag.
executeStep(step) ==
    CASE step.action = "authenticate" -> authenticateAPI(step.payload)
      [] step.action = "query" -> queryAPI(step.payload)
      [] step.action = "transform" -> transformData(step.payload)
      [] step.action = "forward" -> forwardData(step.payload)
      [] OTHER -> "UnknownAction"

\* The handler executeStep calls for a step ("none": the default branch).
HandlerOf(step) == IF step.action \in KnownActions THEN step.action ELSE "none"

\* Map.set, Map.delete on the registry
MapSet(m, id, o) == [k \in DOMAIN m \cup {id} |-> IF k = id THEN o ELSE m[k]]
\* (mutant) delete empties the map.
MapDelete_All(m, id) == << >>
MapDelete(m, id) == [k \in DOMAIN m \ {id} |-> m[k]]

\* getFlow (0: undefined) / getActiveFlows
getFlow(flowId) ==
    IF flowId \in DOMAIN activeFlows THEN activeFlows[flowId] ELSE 0
getActiveFlows == {activeFlows[id] : id \in DOMAIN activeFlows}

\* The identities of the steps of a list.
Ids(steps) == [i \in 1..Len(steps) |-> steps[i].n]

\* The step object of identity n (step objects are never changed).
StepObj(n) ==
    LET o == CHOOSE r \in 1..Len(added) : \E i \in 1..Len(added[r]) : added[r][i].n = n
    IN  added[o][CHOOSE i \in 1..Len(added[o]) : added[o][i].n = n]

\* ---------------------------------------------------------------- state

\* An executeFlow invocation: where it is (pc), its flow object, the iterator's
\* position (idx: steps consumed) and the awaited promise's result (res); and
\* its history: the steps executeStep was called for (invoked), the flow's
\* status at the first of these calls (startStatus), the steps whose promise
\* is pending (inflight), how the call ended (outcome), the flow's status and
\* step list at that moment (endStatus, final), and whether a step was added
\* at or before the position reached while the pass was suspended (shifted).
IdleExec == [pc |-> "idle", flow |-> 0, idx |-> 0, res |-> "none",
             invoked |-> << >>, startStatus |-> "none", inflight |-> {},
             outcome |-> "none", endStatus |-> "none", final |-> << >>,
             shifted |-> FALSE]

IdleSugg == [pc |-> "idle", req |-> << >>, apis |-> << >>, flow |-> 0,
             outcome |-> "none"]

\* A findOptimalRoute invocation: where it is, its arguments, what
\* discoverAPIs returned, and how it ended (result: the route returned).
IdleRoute == [pc |-> "idle", sourceApi |-> "", targetApi |-> "", capability |-> "",
              apis |-> << >>, result |-> << >>, outcome |-> "none"]

\* No graph built yet.
\* No calculateSimilarity call has been made.
NoNumber == [kind |-> "none", sign |-> 0, man |-> << >>, exp |-> 0]
NoSimilarity == [kind |-> "none", dot |-> 0, magnitude1 |-> 0, magnitude2 |-> 0]
IdleSim == [pc |-> "idle", embedding1 |-> << >>, embedding2 |-> << >>,
            result |-> NoSimilarity, value |-> NoNumber]

\* No generateEmbeddings call has been made.
IdleEmb == [pc |-> "idle", apis |-> << >>, provider |-> "", idx |-> 0,
            embeddings |-> << >>, outcomes |-> << >>]

IdleServices ==
    /\ simCall = IdleSim
    /\ embCall = IdleEmb
    /\ engineEmbeddings = << >>
    /\ commandHistory = << >>
    /\ symCalls = << >>
    /\ microtasks = << >>

NoGraph == [outcome |-> "none", nodes |-> << >>, edges |-> << >>, clusters |-> << >>,
            recommendations |-> << >>]

Init ==
    /\ embeddings = << >>
    /\ graph = NoGraph
    /\ route = IdleRoute
    /\ IdleServices
    /\ now = 0
    /\ heap = << >>
    /\ activeFlows = << >>
    /\ nsteps = 0
    /\ exec = [p \in Passes |-> IdleExec]
    /\ sugg = IdleSugg
    /\ added = << >>
    /\ addResult = "none"

\* The clock advances.
Tick ==
    /\ now + 1 \in Times
    /\ now' = now + 1
    /\ UNCHANGED <<outside, heap, activeFlows, nsteps, exec, sugg, added, addResult>>

\* ------------------------------------------------------------ createFlow

\* (mutant) the flow starts as `running`, and without its API list.
NewFlow_Running(name, apis) ==
    [id |-> now, name |-> name, steps |-> << >>, apis |-> << >>,
     status |-> "running"]

\* The flow object createOrchestrationFlow builds.
NewFlow(name, apis) ==
    [id |-> now, name |-> name, steps |-> << >>, apis |-> MapIds(apis),
     status |-> "pending"]

\* createOrchestrationFlow: the body (no await in it).  The new object gets
\* the next reference, which is what the call returns.
createOrchestrationFlow(name, apis) ==
    /\ heap' = Append(heap, NewFlow(name, apis))
    /\ added' = Append(added, << >>)
    /\ activeFlows' = MapSet(activeFlows, NewFlow(name, apis).id, Len(heap) + 1)

CallCreateFlow(name, apis) ==
    /\ createOrchestrationFlow(name, apis)
    /\ UNCHANGED <<outside, now, nsteps, exec, sugg, addResult>>

\* --------------------------------------------------------------- addStep

\* The step object addOrchestrationStep builds: { id: `step-${Date.now()}`, ...step }
\* (n is the object's identity: the number of the call that made it).
NewStep(step) ==
    [id |-> now, action |-> step.action, apiId |-> step.apiId,
     payload |-> step.payload, order |-> step.order, n |-> nsteps + 1]

\* (mutant) the list is not sorted after the push.
PushAndSort_NoSort(steps, newStep) == Append(steps, newStep)

\* flow.steps.push(newStep); flow.steps.sort(...)
PushAndSort(steps, newStep) == SortSteps(Append(steps, newStep))

\* The position of the step of identity n in a list.
PosOf(steps, n) == CHOOSE i \in 1..Len(steps) : steps[i].n = n

\* addOrchestrationStep: the body (no await in it).  A pass suspended on the
\* flow is marked `shifted` when the new step lands at or before the position
\* the pass has reached.
addOrchestrationStep(flowId, step) ==
    IF flowId \notin DOMAIN activeFlows
    THEN /\ addResult' = "FlowNotFound"
         /\ UNCHANGED <<heap, nsteps, exec, added>>
    ELSE LET o == activeFlows[flowId]
             new == PushAndSort(heap[o].steps, NewStep(step))
         IN  /\ heap' = [heap EXCEPT ![o].steps = new]
             /\ nsteps' = nsteps + 1
             /\ added' = [added EXCEPT ![o] = Append(@, NewStep(step))]
             /\ exec' = [p \in Passes |->
                           IF /\ exec[p].pc = "await"
                              /\ exec[p].flow = o
                              /\ PosOf(new, nsteps + 1) <= exec[p].idx
                           THEN [exec[p] EXCEPT !.shifted = TRUE]
                           ELSE exec[p]]
             /\ addResult' = "ok"

\* The bound on step objects: a call that would add one is left out beyond it.
CanAdd(flowId, maxSteps) == flowId \in DOMAIN activeFlows => nsteps < maxSteps

CallAddStep(flowId, step) ==
    /\ addOrchestrationStep(flowId, step)
    /\ UNCHANGED <<outside, now, activeFlows, sugg>>

\* ------------------------------------------------------------ deleteFlow

deleteFlow(flowId) ==
    /\ activeFlows' = MapDelete(activeFlows, flowId)
    /\ UNCHANGED <<outside, now, heap, nsteps, exec, sugg, added, addResult>>

\* ----------------------------------------------------------- executeFlow

\* executeStep(step) is called for the step at position i of flow f: the
\* handler runs, and the pass awaits its promise.
Invoke(e, f, i) ==
    [e EXCEPT !.pc = "await", !.idx = i, !.res = executeStep(f.steps[i]),
              !.invoked = Append(@, f.steps[i].n),
              !.startStatus = IF e.invoked = << >> THEN f.status ELSE @,
              !.inflight = @ \cup {f.steps[i].n}]

\* The pass ends: it returns ("completed") or throws.
Finish(e, f, outcome) ==
    [e EXCEPT !.pc = "done", !.idx = 0, !.res = "none", !.outcome = outcome,
              !.endStatus = f.status, !.final = Ids(f.steps)]

\* (mutant) the loop stops one step early.
RunLoop_StopsEarly(p, e, h) ==
    LET o == e.flow
    IN  IF e.idx + 1 < Len(h[o].steps)
        THEN /\ heap' = h
             /\ exec' = [exec EXCEPT ![p] = Invoke(e, h[o], e.idx + 1)]
        ELSE /\ heap' = [h EXCEPT ![o].status = "completed"]
             /\ exec' = [exec EXCEPT ![p] =
                            Finish(e, [h[o] EXCEPT !.status = "completed"], "completed")]

\* The `for (const step of flow.steps)` loop of pass p, from the iterator
\* position e.idx, on the heap h: the array iterator reads the live list.
\* Either the next step is dispatched and awaited, or the loop ends and the
\* flow is completed.
RunLoop(p, e, h) ==
    LET o == e.flow
    IN  IF e.idx < Len(h[o].steps)
        THEN /\ heap' = h
             /\ exec' = [exec EXCEPT ![p] = Invoke(e, h[o], e.idx + 1)]
        ELSE /\ heap' = [h EXCEPT ![o].status = "completed"]
             /\ exec' = [exec EXCEPT ![p] =
                            Finish(e, [h[o] EXCEPT !.status = "completed"], "completed")]

\* (mutant) the status is not set to `running` before the loop.
executeFlow_NotRunning(p, flowId) ==
    /\ exec[p].pc \in {"idle", "done"}
    /\ IF flowId \notin DOMAIN activeFlows
       THEN /\ exec' = [exec EXCEPT ![p] =
                          [IdleExec EXCEPT !.pc = "done", !.outcome = "FlowNotFound"]]
            /\ UNCHANGED heap
       ELSE RunLoop(p, [IdleExec EXCEPT !.flow = activeFlows[flowId]], heap)
    /\ UNCHANGED <<outside, now, activeFlows, nsteps, sugg, added, addResult>>

\* (mutant) an unregistered id is passed over in silence.
executeFlow_Silent(p, flowId) ==
    /\ exec[p].pc \in {"idle", "done"}
    /\ IF flowId \notin DOMAIN activeFlows
       THEN /\ exec' = [exec EXCEPT ![p] =
                          [IdleExec EXCEPT !.pc = "done", !.outcome = "completed"]]
            /\ UNCHANGED heap
       ELSE RunLoop(p, [IdleExec EXCEPT !.flow = activeFlows[flowId]],
                    [heap EXCEPT ![activeFlows[flowId]].status = "running"])
    /\ UNCHANGED <<outside, now, activeFlows, nsteps, sugg, added, addResult>>

\* executeFlow, from the call to its first await (or to its end).
executeFlow(p, flowId) ==
    /\ exec[p].pc \in {"idle", "done"}
    /\ IF flowId \notin DOMAIN activeFlows
       THEN /\ exec' = [exec EXCEPT ![p] =
                          [IdleExec EXCEPT !.pc = "done", !.outcome = "FlowNotFound"]]
            /\ UNCHANGED heap
       ELSE RunLoop(p, [IdleExec EXCEPT !.flow = activeFlows[flowId]],
                    [heap EXCEPT ![activeFlows[flowId]].status = "running"])
    /\ UNCHANGED <<outside, now, activeFlows, nsteps, sugg, added, addResult>>

\* (mutant) the catch block is missing: a rejected step is passed over.
resumeExecuteFlow_NoCatch(p) ==
    /\ exec[p].pc = "await"
    /\ RunLoop(p, [exec[p] EXCEPT !.inflight = {}], heap)
    /\ UNCHANGED <<outside, now, activeFlows, nsteps, sugg, added, addResult>>

\* (mutant) a rejected step marks every flow as failed.
resumeExecuteFlow_FailsAll(p) ==
    /\ exec[p].pc = "await"
    /\ LET e == [exec[p] EXCEPT !.inflight = @ \ {exec[p].invoked[Len(exec[p].invoked)]}]
           o == e.flow
       IN  IF e.res # "ok"
           THEN /\ heap' = [r \in 1..Len(heap) |-> [heap[r] EXCEPT !.status = "failed"]]
                /\ exec' = [exec EXCEPT ![p] =
                              Finish(e, [heap[o] EXCEPT !.status = "failed"], "threw")]
           ELSE RunLoop(p, e, heap)
    /\ UNCHANGED <<outside, now, activeFlows, nsteps, sugg, added, addResult>>

\* executeFlow, resumed after `await this.executeStep(step)`: a rejected
\* promise goes to the catch block, a fulfilled one to the next iteration.
resumeExecuteFlow(p) ==
    /\ exec[p].pc = "await"
    /\ LET e == [exec[p] EXCEPT !.inflight = @ \ {exec[p].invoked[Len(exec[p].invoked)]}]
           o == e.flow
       IN  IF e.res # "ok"
           THEN /\ heap' = [heap EXCEPT ![o].status = "failed"]
                /\ exec' = [exec EXCEPT ![p] =
                              Finish(e, [heap[o] EXCEPT !.status = "failed"], "threw")]
           ELSE RunLoop(p, e, heap)
    /\ UNCHANGED <<outside, now, activeFlows, nsteps, sugg, added, addResult>>

\* --------------------------------------------------- suggestOrchestration

\* apis.filter(api => api.type === 'ai')
AiAPIs(apis) == SelectSeq(apis, LAMBDA api : api.type = "ai")

\* apis.filter(api => api.capabilities.includes('repository-management')
\*                    || api.type === 'version-control')
StorageAPIs(apis) ==
    SelectSeq(apis, LAMBDA api :
        \/ ArrayIncludes(api.capabilities, "repository-management")
        \/ api.type = "version-control")

WantsText(req) ==
    \/ Includes(ToLowerCase(req), <<"t", "e", "x", "t">>)
    \/ Includes(ToLowerCase(req), <<"c", "o", "n", "t", "e", "n", "t">>)

WantsStore(req) ==
    \/ Includes(ToLowerCase(req), <<"s", "a", "v", "e">>)
    \/ Includes(ToLowerCase(req), <<"s", "t", "o", "r", "e">>)

\* `Auto-generated: ${requirement}`
AutoName(req) == <<"Auto-generated: ">> \o req

QueryStep(apis) ==
    [action |-> "query", apiId |-> AiAPIs(apis)[1].id, payload |-> "object", order |-> 1]
ForwardStep(apis) ==
    [action |-> "forward", apiId |-> StorageAPIs(apis)[1].id, payload |-> "object",
     order |-> 2]

\* What suggestOrchestration leaves when it returns or throws.
Ended(s, outcome) == [IdleSugg EXCEPT !.pc = "done", !.flow = s.flow, !.outcome = outcome]

\* suggestOrchestration is called: it calls discoverAPIs and awaits it.
suggestOrchestration(req) ==
    /\ sugg.pc \in {"idle", "done"}
    /\ sugg' = [IdleSugg EXCEPT !.pc = "discover", !.req = req]
    /\ UNCHANGED <<outside, now, heap, activeFlows, nsteps, exec, added, addResult>>

\* discoverAPIs throws (no workspace folder open): so does suggestOrchestration.
suggestDiscoveryFails ==
    /\ sugg.pc = "discover"
    /\ sugg' = Ended(sugg, "threw")
    /\ UNCHANGED <<outside, now, heap, activeFlows, nsteps, exec, added, addResult>>

\* discoverAPIs returns apis: the flow is created, and the call awaited.
suggestCreate(apis) ==
    /\ sugg.pc = "discover"
    /\ createOrchestrationFlow(AutoName(sugg.req), apis)
    /\ sugg' = [sugg EXCEPT !.pc = "created", !.apis = apis, !.flow = Len(heap) + 1]
    /\ UNCHANGED <<outside, now, nsteps, exec, addResult>>

\* One addOrchestrationStep(flow.id, step) call of suggestOrchestration, which
\* is awaited (pc goes to `then`) or throws.
suggestAdd(step, then, maxSteps) ==
    /\ CanAdd(heap[sugg.flow].id, maxSteps)
    /\ addOrchestrationStep(heap[sugg.flow].id, step)
    /\ sugg' = IF heap[sugg.flow].id \in DOMAIN activeFlows
               THEN [sugg EXCEPT !.pc = then]
               ELSE Ended(sugg, "threw")
    /\ UNCHANGED <<outside, now, activeFlows>>

\* The second `if` of suggestOrchestration, to the next await or the return.
suggestStore(maxSteps) ==
    IF WantsStore(sugg.req) /\ Len(StorageAPIs(sugg.apis)) > 0
    THEN suggestAdd(ForwardStep(sugg.apis), "stored", maxSteps)
    ELSE /\ sugg' = Ended(sugg, "ok")
         /\ UNCHANGED <<outside, now, heap, activeFlows, nsteps, exec, added, addResult>>

\* Resumed after `await this.createOrchestrationFlow(...)`: the first `if`.
suggestAfterCreate(maxSteps) ==
    /\ sugg.pc = "created"
    /\ IF WantsText(sugg.req) /\ Len(AiAPIs(sugg.apis)) > 0
       THEN suggestAdd(QueryStep(sugg.apis), "queried", maxSteps)
       ELSE suggestStore(maxSteps)

\* (mutant) the second rule is passed over when the first one applied.
suggestAfterQuery_Returns(maxSteps) ==
    /\ sugg.pc = "queried"
    /\ sugg' = Ended(sugg, "ok")
    /\ UNCHANGED <<outside, now, heap, activeFlows, nsteps, exec, added, addResult>>

\* Resumed after the first `await this.addOrchestrationStep(...)`.
suggestAfterQuery(maxSteps) ==
    /\ sugg.pc = "queried"
    /\ suggestStore(maxSteps)

\* Resumed after the second `await this.addOrchestrationStep(...)`: return flow.
suggestReturn ==
    /\ sugg.pc = "stored"
    /\ sugg' = Ended(sugg, "ok")
    /\ UNCHANGED <<outside, now, heap, activeFlows, nsteps, exec, added, addResult>>

\* ------------------------------------------------------- findOptimalRoute

\* (mutant) the source and the target are not left out.
IntermediateAPIs_NoExclusion(apis, sourceApi, targetApi, capability) ==
    SelectSeq(apis, LAMBDA api : ArrayIncludes(api.capabilities, capability))

\* apis.filter(api => api.id !== sourceApi && api.id !== targetApi &&
\*                    api.capabilities.includes(capability))
IntermediateAPIs(apis, sourceApi, targetApi, capability) ==
    SelectSeq(apis, LAMBDA api :
        /\ api.id # sourceApi
        /\ api.id # targetApi
        /\ ArrayIncludes(api.capabilities, capability))

\* The route built from the discovered descriptors.
BuildRoute(apis, sourceApi, targetApi, capability) ==
    LET intermediateAPIs == IntermediateAPIs(apis, sourceApi, targetApi, capability)
    IN  <<sourceApi>>
        \o (IF Len(intermediateAPIs) > 0 THEN <<intermediateAPIs[1].id>> ELSE << >>)
        \o <<targetApi>>

\* findOptimalRoute is called: it calls discoverAPIs and awaits it.
findOptimalRoute(sourceApi, targetApi, capability) ==
    /\ route.pc \in {"idle", "done"}
    /\ route' = [IdleRoute EXCEPT !.pc = "discover", !.sourceApi = sourceApi,
                                  !.targetApi = targetApi, !.capability = capability]
    /\ UNCHANGED <<now, heap, activeFlows, nsteps, exec, sugg, added, addResult,
                   embeddings, graph, services>>

\* discoverAPIs throws (no workspace folder open): so does findOptimalRoute.
routeDiscoveryFails ==
    /\ route.pc = "discover"
    /\ route' = [route EXCEPT !.pc = "done", !.outcome = "threw"]
    /\ UNCHANGED <<now, heap, activeFlows, nsteps, exec, sugg, added, addResult,
                   embeddings, graph, services>>

\* discoverAPIs returns apis: generateEmbeddings(apis) is called and awaited
\* (it catches what its providers throw, and its result is not used).
routeDiscovered(apis) ==
    /\ route.pc = "discover"
    /\ route' = [route EXCEPT !.pc = "embed", !.apis = apis]
    /\ UNCHANGED <<now, heap, activeFlows, nsteps, exec, sugg, added, addResult,
                   embeddings, graph, services>>

\* Resumed after `await this.embeddingEngine.generateEmbeddings(apis)`: the
\* route is built and returned.
routeReturn ==
    /\ route.pc = "embed"
    /\ route' = [route EXCEPT !.pc = "done", !.outcome = "ok",
                              !.result = BuildRoute(route.apis, route.sourceApi,
                                                    route.targetApi, route.capability)]
    /\ UNCHANGED <<now, heap, activeFlows, nsteps, exec, sugg, added, addResult,
                   embeddings, graph, services>>

\* ------------------------------------------------------ number arithmetic
\* A JavaScript number is an IEEE 754 binary64 value; its operations round
\* to the nearest value, ties to even.  A finite non-zero number is kept as
\* sign * man * 2^exp with a significand man of Precision bits.  Naturals
\* beyond the range of the integers are kept as lists of limbs of LimbBits
\* bits, lowest first, the last one not 0 (zero is the empty list).
\* Exponents stay far from the ends of the range here, so overflow and
\* subnormal numbers do not occur.
Precision == 53

LimbBits == 13
Base == 2^LimbBits

\* The limbs a root or a quotient is extended by before it is rounded.
Extra == 5

RECURSIVE Trim(_)
Trim(a) == IF a = << >> \/ a[Len(a)] # 0 THEN a ELSE Trim(SubSeq(a, 1, Len(a) - 1))

RECURSIVE ToLimbs(_)
ToLimbs(n) == IF n = 0 THEN << >> ELSE <<n % Base>> \o ToLimbs(n \div Base)

Limb(a, i) == IF i <= Len(a) THEN a[i] ELSE 0

ShiftLimbs(a, k) ==
    IF a = << >> THEN a ELSE [i \in 1..(Len(a) + k) |-> IF i <= k THEN 0 ELSE a[i - k]]

DropLimbs(a, k) == SubSeq(a, k + 1, Len(a))

RECURSIVE AddFrom(_, _, _, _)
AddFrom(a, b, i, carry) ==
    IF i > Len(a) /\ i > Len(b) THEN (IF carry = 0 THEN << >> ELSE <<carry>>)
    ELSE LET sum == Limb(a, i) + Limb(b, i) + carry
         IN  <<sum % Base>> \o AddFrom(a, b, i + 1, sum \div Base)

Plus(a, b) == AddFrom(a, b, 1, 0)

\* a - b for a >= b.
RECURSIVE SubFrom(_, _, _, _)
SubFrom(a, b, i, borrow) ==
    IF i > Len(a) THEN << >>
    ELSE LET diff == Limb(a, i) - Limb(b, i) - borrow
         IN  <<(diff + Base) % Base>> \o SubFrom(a, b, i + 1, IF diff < 0 THEN 1 ELSE 0)

Minus(a, b) == Trim(SubFrom(a, b, 1, 0))

\* a >= b.
AtLeast(a, b) ==
    IF Len(a) # Len(b) THEN Len(a) > Len(b)
    ELSE ~ \E i \in 1..Len(a) : a[i] < b[i] /\ \A j \in (i + 1)..Len(a) : a[j] = b[j]

\* a * d for a single limb d.
RECURSIVE ScaleFrom(_, _, _, _)
ScaleFrom(a, d, i, carry) ==
    IF i > Len(a) THEN (IF carry = 0 THEN << >> ELSE <<carry>>)
    ELSE LET prod == a[i] * d + carry
         IN  <<prod % Base>> \o ScaleFrom(a, d, i + 1, prod \div Base)

TimesSmall(a, d) == Trim(ScaleFrom(a, d, 1, 0))

RECURSIVE ProductFrom(_, _, _)
ProductFrom(a, b, i) ==
    IF i > Len(b) THEN << >>
    ELSE Plus(TimesSmall(a, b[i]), ShiftLimbs(ProductFrom(a, b, i + 1), 1))

Product(a, b) == ProductFrom(a, b, 1)

\* The largest limb d in lo..hi with b * d <= rem (b * lo <= rem).
RECURSIVE QuotientDigit(_, _, _, _)
QuotientDigit(rem, b, lo, hi) ==
    IF lo = hi THEN lo
    ELSE LET mid == (lo + hi + 1) \div 2
         IN  IF AtLeast(rem, TimesSmall(b, mid))
             THEN QuotientDigit(rem, b, mid, hi)
             ELSE QuotientDigit(rem, b, lo, mid - 1)

\* Quotient and remainder of a by b, by long division from limb k of a up.
RECURSIVE DivFrom(_, _, _)
DivFrom(a, b, k) ==
    IF k > Len(a) THEN [q |-> << >>, r |-> << >>]
    ELSE LET prev == DivFrom(a, b, k + 1)
             rem == Trim(<<a[k]>> \o prev.r)
             d == QuotientDigit(rem, b, 0, Base - 1)
         IN  [q |-> <<d>> \o prev.q, r |-> Minus(rem, TimesSmall(b, d))]

\* (2 * s * Base + d) * d: what the square of s * Base + d adds to the
\* square of s * Base.
RootTrial(s, d) == TimesSmall(Plus(ShiftLimbs(Plus(s, s), 1), ToLimbs(d)), d)

\* The largest limb d in lo..hi with RootTrial(s, d) <= rem.
RECURSIVE RootDigit(_, _, _, _)
RootDigit(rem, s, lo, hi) ==
    IF lo = hi THEN lo
    ELSE LET mid == (lo + hi + 1) \div 2
         IN  IF AtLeast(rem, RootTrial(s, mid))
             THEN RootDigit(rem, s, mid, hi)
             ELSE RootDigit(rem, s, lo, mid - 1)

\* The integer square root s of n and the remainder n - s * s, two limbs of
\* n at a time.
RECURSIVE SqrtRem(_)
SqrtRem(n) ==
    IF n = << >> THEN [s |-> << >>, r |-> << >>]
    ELSE LET prev == SqrtRem(DropLimbs(n, 2))
             rem == Trim(<<Limb(n, 1), Limb(n, 2)>> \o prev.r)
             d == RootDigit(rem, prev.s, 0, Base - 1)
         IN  [s |-> Trim(<<d>> \o prev.s), r |-> Minus(rem, RootTrial(prev.s, d))]

\* The number of bits of a, bit j of a (the lowest is bit 1), and a shifted
\* by k bits.
BitLen(a) ==
    IF a = << >> THEN 0
    ELSE LimbBits * (Len(a) - 1)
            + (CHOOSE w \in 1..LimbBits : 2^(w - 1) <= a[Len(a)] /\ a[Len(a)] < 2^w)

BitAt(a, j) == (Limb(a, (j - 1) \div LimbBits + 1) \div 2^((j - 1) % LimbBits)) % 2

ShiftRightBits(a, k) ==
    LET u == k \div LimbBits
        v == k % LimbBits
    IN  Trim([i \in 1..(Len(a) - u) |->
                 (a[i + u] \div 2^v) + (Limb(a, i + u + 1) % 2^v) * 2^(LimbBits - v)])

ShiftLeftBits(a, k) == ShiftLimbs(TimesSmall(a, 2^(k % LimbBits)), k \div LimbBits)

Zero == [kind |-> "finite", sign |-> 0, man |-> << >>, exp |-> 0]
NaN == [kind |-> "NaN", sign |-> 0, man |-> << >>, exp |-> 0]
Infinity(sign) == [kind |-> "Infinity", sign |-> sign, man |-> << >>, exp |-> 0]

\* The number nearest to sign * (n + fraction) * 2^exp, where the fraction
\* is in [0, 1) and non-zero exactly when inexact (then n has more than
\* Precision bits).
RoundToNumber(sign, n, exp, inexact) ==
    IF n = << >> THEN Zero
    ELSE IF BitLen(n) <= Precision
    THEN [kind |-> "finite", sign |-> sign,
          man |-> ShiftLeftBits(n, Precision - BitLen(n)),
          exp |-> exp - (Precision - BitLen(n))]
    ELSE LET k == BitLen(n) - Precision
             kept == ShiftRightBits(n, k)
             rest == inexact \/ \E j \in 1..(k - 1) : BitAt(n, j) = 1
             up == BitAt(n, k) = 1 /\ (rest \/ BitAt(kept, 1) = 1)
             rounded == IF up THEN Plus(kept, <<1>>) ELSE kept
         IN  IF BitLen(rounded) > Precision
             THEN [kind |-> "finite", sign |-> sign,
                   man |-> ShiftRightBits(rounded, 1), exp |-> exp + k + 1]
             ELSE [kind |-> "finite", sign |-> sign, man |-> rounded, exp |-> exp + k]

\* Math.sqrt(m) for an integer m >= 0.
Sqrt(m) ==
    LET root == SqrtRem(ShiftLimbs(ToLimbs(m), 2 * Extra))
    IN  RoundToNumber(1, root.s, 0 - Extra * LimbBits, root.r # << >>)

\* x * y for finite numbers.
Multiply(x, y) ==
    RoundToNumber(x.sign * y.sign, Product(x.man, y.man), x.exp + y.exp, FALSE)

\* n / y for an integer n and a finite number y.
Divide(n, y) ==
    IF y.sign = 0
    THEN IF n = 0 THEN NaN ELSE Infinity(IF n > 0 THEN 1 ELSE -1)
    ELSE LET abs == IF n < 0 THEN 0 - n ELSE n
             div == DivFrom(ShiftLimbs(ToLimbs(abs), 2 * Extra), y.man, 1)
         IN  RoundToNumber((IF n < 0 THEN -1 ELSE 1) * y.sign, Trim(div.q),
                           0 - 2 * Extra * LimbBits - y.exp, div.r # << >>)

\* The number calculateSimilarity returns.
NumberOf(similarity) ==
    IF similarity.kind = "zero" THEN Zero
    ELSE Divide(similarity.dot,
                Multiply(Sqrt(similarity.magnitude1), Sqrt(similarity.magnitude2)))

\* ---------------------------------------------------- calculateSimilarity

\* embedding-engine.ts, calculateSimilarity: the sums of the loop.
RECURSIVE DotProduct(_, _)
DotProduct(embedding1, embedding2) ==
    IF embedding1 = << >> THEN 0
    ELSE Head(embedding1) * Head(embedding2) + DotProduct(Tail(embedding1), Tail(embedding2))

\* (mutant) only a longer first vector is refused.
calculateSimilarity_LongerOnly(embedding1, embedding2) ==
    IF Len(embedding1) > Len(embedding2)
    THEN [kind |-> "throws", dot |-> 0, magnitude1 |-> 0, magnitude2 |-> 0]
    ELSE LET prefix == SubSeq(embedding2, 1, Len(embedding1))
             dotProduct == DotProduct(embedding1, prefix)
             magnitude1 == DotProduct(embedding1, embedding1)
             magnitude2 == DotProduct(prefix, prefix)
         IN  IF magnitude1 = 0 \/ magnitude2 = 0
             THEN [kind |-> "zero", dot |-> 0, magnitude1 |-> magnitude1,
                   magnitude2 |-> magnitude2]
             ELSE [kind |-> "quotient", dot |-> dotProduct, magnitude1 |-> magnitude1,
                   magnitude2 |-> magnitude2]

\* (mutant) zero magnitudes are divided by.
calculateSimilarity_NoZeroCheck(embedding1, embedding2) ==
    IF Len(embedding1) # Len(embedding2)
    THEN [kind |-> "throws", dot |-> 0, magnitude1 |-> 0, magnitude2 |-> 0]
    ELSE [kind |-> "quotient", dot |-> DotProduct(embedding1, embedding2),
          magnitude1 |-> DotProduct(embedding1, embedding1),
          magnitude2 |-> DotProduct(embedding2, embedding2)]

\* (mutant) only the first magnitude is compared with 0.
calculateSimilarity_FirstZeroOnly(embedding1, embedding2) ==
    IF Len(embedding1) # Len(embedding2)
    THEN [kind |-> "throws", dot |-> 0, magnitude1 |-> 0, magnitude2 |-> 0]
    ELSE LET dotProduct == DotProduct(embedding1, embedding2)
             magnitude1 == DotProduct(embedding1, embedding1)
             magnitude2 == DotProduct(embedding2, embedding2)
         IN  IF magnitude1 = 0
             THEN [kind |-> "zero", dot |-> 0, magnitude1 |-> magnitude1,
                   magnitude2 |-> magnitude2]
             ELSE [kind |-> "quotient", dot |-> dotProduct, magnitude1 |-> magnitude1,
                   magnitude2 |-> magnitude2]

\* calculateSimilarity.  What it returns is kept as the return statement
\* reached and the exact operands of the last one: `zero` is `return 0`,
\* `quotient` is dotProduct / (Math.sqrt(magnitude1) * Math.sqrt(magnitude2))
\* with the three sums of the loop (the vectors here have small integer
\* components, so the sums are exact in a number).
calculateSimilarity(embedding1, embedding2) ==
    IF Len(embedding1) # Len(embedding2)
    THEN [kind |-> "throws", dot |-> 0, magnitude1 |-> 0, magnitude2 |-> 0]
    ELSE LET dotProduct == DotProduct(embedding1, embedding2)
             magnitude1 == DotProduct(embedding1, embedding1)
             magnitude2 == DotProduct(embedding2, embedding2)
         IN  IF magnitude1 = 0 \/ magnitude2 = 0
             THEN [kind |-> "zero", dot |-> 0, magnitude1 |-> magnitude1,
                   magnitude2 |-> magnitude2]
             ELSE [kind |-> "quotient", dot |-> dotProduct, magnitude1 |-> magnitude1,
                   magnitude2 |-> magnitude2]

\* similarity > n/d, for a threshold n/d >= 0, compared exactly:
\* dot / sqrt(m1 * m2) > n / d.  (For the vectors of EmbeddingPool the
\* comparisons of the numbers computed with 0.3 and 0.8 give the same answers.)
GreaterThan(similarity, threshold) ==
    /\ similarity.kind = "quotient"
    /\ similarity.dot > 0
    /\ threshold[2] * threshold[2] * similarity.dot * similarity.dot
          > threshold[1] * threshold[1] * similarity.magnitude1 * similarity.magnitude2

\* A call calculateSimilarity(embedding1, embedding2): it runs in one
\* synchronous block, and either throws or returns a number.
callCalculateSimilarity ==
    /\ simCall.pc = "called"
    /\ LET result == calculateSimilarity(simCall.embedding1, simCall.embedding2)
       IN  simCall' =
              IF result.kind = "throws"
              THEN [simCall EXCEPT !.pc = "threw", !.result = result]
              ELSE [simCall EXCEPT !.pc = "returned", !.result = result,
                                   !.value = NumberOf(result)]
    /\ UNCHANGED <<now, heap, activeFlows, nsteps, exec, sugg, added, addResult, route,
                   embeddings, graph, embCall, engineEmbeddings,
                   commandHistory, symCalls, microtasks>>

\* -------------------------------------------------------- generateEmbeddings

\* new Array(384)
Dimension == 384

\* String.prototype.charCodeAt, for letters, the space and the hyphen.
CharCode(c) ==
    IF \E k \in 1..26 : UpperCase[k] = c THEN 64 + (CHOOSE k \in 1..26 : UpperCase[k] = c)
    ELSE IF \E k \in 1..26 : LowerCase[k] = c THEN 96 + (CHOOSE k \in 1..26 : LowerCase[k] = c)
    ELSE IF c = " " THEN 32
    ELSE 45

\* Array.prototype.join(' ')
RECURSIVE Join(_)
Join(strs) ==
    IF strs = << >> THEN << >>
    ELSE IF Len(strs) = 1 THEN strs[1]
    ELSE strs[1] \o <<" ">> \o Join(Tail(strs))

createAPIText(api) ==
    api.name \o <<" ">> \o api.type \o <<" ">> \o api.description \o <<" ">>
        \o Join(api.capabilities)

\* The sum of f[lo..hi].
RECURSIVE SumRange(_, _, _)
SumRange(f, lo, hi) ==
    IF lo > hi THEN 0
    ELSE IF lo = hi THEN f[lo]
    ELSE SumRange(f, lo, (lo + hi) \div 2) + SumRange(f, (lo + hi) \div 2 + 1, hi)

\* The sum of the character codes of a text at a set of indices (from 0).
RECURSIVE SumCodes(_, _)
SumCodes(text, indices) ==
    IF indices = {} THEN 0
    ELSE LET i == CHOOSE j \in indices : TRUE
         IN  CharCode(text[i + 1]) + SumCodes(text, indices \ {i})

\* A vector val / (magnitude || 1) is kept exactly, as the numerators (the
\* sums of character codes: val * 1000) and the sum of their squares
\* ((magnitude * 1000) squared); when that is 0 every component is 0.
Normalized(sums) ==
    [numerators |-> sums,
     sq |-> SumRange([p \in 1..Len(sums) |-> sums[p] * sums[p]], 1, Len(sums))]

\* generateMockEmbedding: the loop visits i while i < text.length and
\* i < embedding.length, and adds to embedding[i % embedding.length].
generateMockEmbedding(text) ==
    Normalized([p \in 1..Dimension |->
        SumCodes(text, {i \in {p - 1 + k * Dimension : k \in 0..(Len(text) \div Dimension)} :
                           i < Len(text) /\ i < Dimension})])

NoVector == [numerators |-> << >>, sq |-> 0]

\* generateLocalEmbedding / generateOpenAIEmbedding /
\* generateHuggingFaceEmbedding: each is createAPIText and then
\* generateMockEmbedding; the promise is rejected when createAPIText throws.
generateLocalEmbedding(api) ==
    IF "capabilities" \in api.missing
    THEN [kind |-> "throws", vector |-> NoVector]
    ELSE [kind |-> "vector", vector |-> generateMockEmbedding(createAPIText(api))]

generateOpenAIEmbedding(api) ==
    IF "capabilities" \in api.missing
    THEN [kind |-> "throws", vector |-> NoVector]
    ELSE [kind |-> "vector", vector |-> generateMockEmbedding(createAPIText(api))]

generateHuggingFaceEmbedding(api) ==
    IF "capabilities" \in api.missing
    THEN [kind |-> "throws", vector |-> NoVector]
    ELSE [kind |-> "vector", vector |-> generateMockEmbedding(createAPIText(api))]

\* The end of the loop: `return embeddings`.
ReturnAtEnd(call) == IF call.idx = Len(call.apis) THEN [call EXCEPT !.pc = "done"] ELSE call

\* generateEmbeddings(apis), up to the first await (`outcomes` is history:
\* how the embedding call of each descriptor ended).
generateEmbeddings(apis, configured) ==
    /\ embCall.pc = "idle"
    /\ embCall' = ReturnAtEnd([pc |-> "loop", apis |-> apis,
                               provider |-> IF configured = "" THEN "local" ELSE configured,
                               idx |-> 0, embeddings |-> << >>, outcomes |-> << >>])
    /\ UNCHANGED <<now, heap, activeFlows, nsteps, exec, sugg, added, addResult, route,
                   embeddings, graph, simCall, engineEmbeddings,
                   commandHistory, symCalls, microtasks>>

\* (mutant) no try/catch around the embedding call.
resumeGenerateEmbeddings_Rethrows ==
    /\ embCall.pc = "loop"
    /\ LET api == embCall.apis[embCall.idx + 1]
           outcome == generateLocalEmbedding(api)
           apiEmbedding ==
               [apiId |-> api.id, embedding |-> outcome.vector,
                metadata |-> [name |-> api.name, type |-> api.type,
                              capabilities |-> api.capabilities,
                              description |-> api.description]]
       IN  IF outcome.kind = "throws"
           THEN /\ embCall' = [embCall EXCEPT !.pc = "threw",
                                              !.outcomes = Append(@, "failed")]
                /\ UNCHANGED engineEmbeddings
           ELSE /\ embCall' = ReturnAtEnd([embCall EXCEPT !.idx = @ + 1,
                                                          !.embeddings = Append(@, apiEmbedding),
                                                          !.outcomes = Append(@, "ok")])
                /\ engineEmbeddings' = MapSet(engineEmbeddings, api.id, apiEmbedding)
    /\ UNCHANGED <<now, heap, activeFlows, nsteps, exec, sugg, added, addResult, route,
                   embeddings, graph, simCall, commandHistory, symCalls, microtasks>>

\* One iteration of the loop of generateEmbeddings: the embedding call of
\* the provider, awaited, then the push and the set, or the catch; after the
\* last one the list is returned.
resumeGenerateEmbeddings ==
    /\ embCall.pc = "loop"
    /\ LET api == embCall.apis[embCall.idx + 1]
           outcome == CASE embCall.provider = "openai" -> generateOpenAIEmbedding(api)
                        [] embCall.provider = "huggingface" -> generateHuggingFaceEmbedding(api)
                        [] OTHER -> generateLocalEmbedding(api)
           apiEmbedding ==
               [apiId |-> api.id, embedding |-> outcome.vector,
                metadata |-> [name |-> api.name, type |-> api.type,
                              capabilities |-> api.capabilities,
                              description |-> api.description]]
       IN  IF outcome.kind = "throws"
           THEN /\ embCall' = ReturnAtEnd([embCall EXCEPT !.idx = @ + 1,
                                                          !.outcomes = Append(@, "failed")])
                /\ UNCHANGED engineEmbeddings
           ELSE /\ embCall' = ReturnAtEnd([embCall EXCEPT !.idx = @ + 1,
                                                          !.embeddings = Append(@, apiEmbedding),
                                                          !.outcomes = Append(@, "ok")])
                /\ engineEmbeddings' = MapSet(engineEmbeddings, api.id, apiEmbedding)
    /\ UNCHANGED <<now, heap, activeFlows, nsteps, exec, sugg, added, addResult, route,
                   embeddings, graph, simCall, commandHistory, symCalls, microtasks>>

\* -------------------------------------------------------- symbolic protocol

SuperSymbol == "-/-\\-"

\* The symbols the switch of executeSymbol has a case for.
HandledSymbols == {"*", "#", "´", "CLaK:", "<<RE:UNITY>>"}

\* A symbol no case matches.
UnknownSymbol == "?"

\* The payloads executeSymbol is called with (the parameter is `any`):
\* undefined, and the object {}.  `phase` is payload.phase ("": not set).
NoPayload == [defined |-> FALSE, phase |-> ""]
EmptyPayload == [defined |-> TRUE, phase |-> ""]
Payloads == {NoPayload, EmptyPayload}

\* The executeSymbol calls made from outside the handler.
Callers == {1, 2}

\* (mutant) the second and the third step change places.
SuperSteps_Swapped ==
    << [symbol |-> "*", description |-> "System Initialization"],
       [symbol |-> "´", description |-> "Content Transmission"],
       [symbol |-> "#", description |-> "Knowledge Transfer"],
       [symbol |-> "CLaK:", description |-> "Chapter Shift"],
       [symbol |-> "<<RE:UNITY>>", description |-> "Network Reintegration"] >>

\* `steps` of executeSuperSymbol.
SuperSteps ==
    << [symbol |-> "*", description |-> "System Initialization"],
       [symbol |-> "#", description |-> "Knowledge Transfer"],
       [symbol |-> "´", description |-> "Content Transmission"],
       [symbol |-> "CLaK:", description |-> "Chapter Shift"],
       [symbol |-> "<<RE:UNITY>>", description |-> "Network Reintegration"] >>

\* A SymbolicResult is kept as `success` and `message`, the message as the
\* sequence of the pieces its template joins; `data` is not kept.
NoResult == [success |-> FALSE, message |-> << >>]

\* The promise of an async function that returned { success: true, message },
\* and of one that threw.
Fulfilled(message) ==
    [state |-> "fulfilled", value |-> [success |-> TRUE, message |-> message], reason |-> ""]
Rejected(reason) == [state |-> "rejected", value |-> NoResult, reason |-> reason]
NoPromise == [state |-> "none", value |-> NoResult, reason |-> ""]

\* The handlers run to their end in the block that calls them.  Each but
\* reintegrateNetworkState reads a property of the payload, which throws a
\* TypeError when the payload is undefined.
activateAPI(payload) ==
    IF payload.defined
    THEN Fulfilled(<<"API systems activated and ready for semantic communication">>)
    ELSE Rejected("TypeError")

transferKnowledge(payload) ==
    IF payload.defined
    THEN Fulfilled(<<"Knowledge embeddings transferred successfully across API network">>)
    ELSE Rejected("TypeError")

transmitContent(payload) ==
    IF payload.defined
    THEN Fulfilled(<<"Raw content transmitted to target APIs">>)
    ELSE Rejected("TypeError")

initiateChapterShift(payload) ==
    IF payload.defined
    THEN LET phase == IF payload.phase = "" THEN "NextPhase" ELSE payload.phase
         IN  Fulfilled(<<"Chapter shift initiated: ", phase>>)
    ELSE Rejected("TypeError")

reintegrateNetworkState ==
    Fulfilled(<<"All APIs synchronized and reintegrated into unified state">>)

\* results.join('\n')
RECURSIVE JoinLines(_)
JoinLines(results) ==
    IF results = << >> THEN << >>
    ELSE IF Len(results) = 1 THEN results[1]
    ELSE results[1] \o <<"\n">> \o JoinLines(Tail(results))

\* An executeSymbol invocation: its arguments, the invocation whose loop
\* called it (0: called from outside), where it is, the settled promise it
\* awaits, and for the super symbol the loop of executeSuperSymbol (the step
\* it is at, the invocation it awaits, the lines collected).
\*   pc "handler"   at the await of a handler's promise
\*      "steps"     in executeSuperSymbol, at the await of a step
\*      "super"     at the await of executeSuperSymbol's promise
\*      "returned"  the record is pushed and the result returned
\*      "threw"     the invocation's promise is rejected
NewCall(symbol, payload, parent) ==
    [symbol |-> symbol, payload |-> payload, parent |-> parent, pc |-> "handler",
     promise |-> NoPromise, step |-> 0, child |-> 0, results |-> << >>,
     result |-> NoResult]

\* The record executeSymbol pushes; `call` is the invocation that built the
\* command object.
Command(call, c, result) ==
    [symbol |-> call.symbol, payload |-> call.payload, result |-> result, call |-> c]

\* executeSymbol(symbol, payload) up to its first await, or to its return
\* when no case matches; for the super symbol this includes the first
\* iteration of executeSuperSymbol up to its await.
RECURSIVE executeSymbolCall(_, _, _, _)
executeSymbolCall(state, symbol, payload, parent) ==
    LET c == Len(state.symCalls) + 1
        call == NewCall(symbol, payload, parent)
    IN  IF symbol = SuperSymbol
        THEN executeSymbolCall(
                 [state EXCEPT !.symCalls =
                     Append(@, [call EXCEPT !.pc = "steps", !.step = 1, !.child = c + 1])],
                 SuperSteps[1].symbol, payload, c)
        ELSE IF symbol \in HandledSymbols
        THEN LET promise == CASE symbol = "*" -> activateAPI(payload)
                              [] symbol = "#" -> transferKnowledge(payload)
                              [] symbol = "´" -> transmitContent(payload)
                              [] symbol = "CLaK:" -> initiateChapterShift(payload)
                              [] symbol = "<<RE:UNITY>>" -> reintegrateNetworkState
             IN  [state EXCEPT !.symCalls = Append(@, [call EXCEPT !.promise = promise]),
                               !.microtasks = Append(@, c)]
        ELSE LET result == [success |-> FALSE, message |-> <<"Unknown symbol: ", symbol>>]
             IN  [state EXCEPT !.symCalls = Append(@, [call EXCEPT !.pc = "returned",
                                                                   !.result = result]),
                               !.commandHistory = Append(@, Command(call, c, result))]

\* A call of executeSymbol from outside the handler.
executeSymbol(symbol, payload) ==
    /\ Cardinality({c \in DOMAIN symCalls : symCalls[c].parent = 0}) < Cardinality(Callers)
    /\ LET after == executeSymbolCall([symCalls |-> symCalls, microtasks |-> microtasks,
                                       commandHistory |-> commandHistory],
                                      symbol, payload, 0)
       IN  /\ symCalls' = after.symCalls
           /\ microtasks' = after.microtasks
           /\ commandHistory' = after.commandHistory
    /\ UNCHANGED <<now, heap, activeFlows, nsteps, exec, sugg, added, addResult, route,
                   embeddings, graph, simCall, embCall, engineEmbeddings>>

\* (mutant) no try/catch around the awaits.
resumeExecuteSymbol_NoCatch ==
    /\ microtasks # << >>
    /\ LET c == Head(microtasks)
           call == symCalls[c]
           result == call.promise.value
           settled == IF call.parent = 0 THEN << >> ELSE <<call.parent>>
       IN  /\ call.pc \in {"handler", "super"}
           /\ IF call.promise.state = "rejected"
              THEN /\ symCalls' = [symCalls EXCEPT ![c].pc = "threw"]
                   /\ UNCHANGED commandHistory
              ELSE /\ symCalls' = [symCalls EXCEPT ![c].pc = "returned", ![c].result = result]
                   /\ commandHistory' = Append(commandHistory, Command(call, c, result))
           /\ microtasks' = Tail(microtasks) \o settled
    /\ UNCHANGED <<now, heap, activeFlows, nsteps, exec, sugg, added, addResult, route,
                   embeddings, graph, simCall, embCall, engineEmbeddings>>

\* executeSymbol after its await: the result or the catch, the push and the
\* return, which settles the promise the loop of the calling
\* executeSuperSymbol awaits.
resumeExecuteSymbol ==
    /\ microtasks # << >>
    /\ LET c == Head(microtasks)
           call == symCalls[c]
           result == IF call.promise.state = "rejected"
                     THEN [success |-> FALSE,
                           message |-> <<"Error executing symbol ", call.symbol, ": ",
                                         call.promise.reason>>]
                     ELSE call.promise.value
           settled == IF call.parent = 0 THEN << >> ELSE <<call.parent>>
       IN  /\ call.pc \in {"handler", "super"}
           /\ symCalls' = [symCalls EXCEPT ![c].pc = "returned", ![c].result = result]
           /\ commandHistory' = Append(commandHistory, Command(call, c, result))
           /\ microtasks' = Tail(microtasks) \o settled
    /\ UNCHANGED <<now, heap, activeFlows, nsteps, exec, sugg, added, addResult, route,
                   embeddings, graph, simCall, embCall, engineEmbeddings>>

\* executeSuperSymbol after the await of a step: the line of the step, then
\* the next step's executeSymbol call up to its await, or after the last
\* step the return, which settles the promise executeSymbol awaits.  The
\* mark of a line is the character U+2705 or U+274C, written by its code.
resumeExecuteSuperSymbol ==
    /\ microtasks # << >>
    /\ LET s == Head(microtasks)
           call == symCalls[s]
       IN  /\ call.pc = "steps"
           /\ LET stepResult == symCalls[call.child].result
                  line == <<SuperSteps[call.step].description, ": ",
                            IF stepResult.success THEN "U+2705" ELSE "U+274C", " ">>
                          \o stepResult.message
                  results == Append(call.results, line)
              IN  IF call.step < Len(SuperSteps)
                  THEN LET after ==
                               executeSymbolCall(
                                   [symCalls |-> [symCalls EXCEPT ![s].results = results,
                                                                  ![s].step = @ + 1,
                                                                  ![s].child = Len(symCalls) + 1],
                                    microtasks |-> Tail(microtasks),
                                    commandHistory |-> commandHistory],
                                   SuperSteps[call.step + 1].symbol, call.payload, s)
                       IN  /\ symCalls' = after.symCalls
                           /\ microtasks' = after.microtasks
                           /\ commandHistory' = after.commandHistory
                  ELSE /\ symCalls' =
                              [symCalls EXCEPT
                                  ![s].results = results,
                                  ![s].pc = "super",
                                  ![s].child = 0,
                                  ![s].promise =
                                      Fulfilled(<<"Super symbol executed with ",
                                                  ToString(Len(SuperSteps)), " steps:\n">>
                                                \o JoinLines(results))]
                       /\ microtasks' = Append(Tail(microtasks), s)
                       /\ UNCHANGED commandHistory
    /\ UNCHANGED <<now, heap, activeFlows, nsteps, exec, sugg, added, addResult, route,
                   embeddings, graph, simCall, embCall, engineEmbeddings>>

\* getCommandHistory(): a copy of the list, element by element.
getCommandHistory == [i \in 1..Len(commandHistory) |-> commandHistory[i]]

clearHistory ==
    /\ commandHistory' = << >>
    /\ UNCHANGED <<now, heap, activeFlows, nsteps, exec, sugg, added, addResult, route,
                   embeddings, graph, simCall, embCall, engineEmbeddings, symCalls,
                   microtasks>>

\* ----------------------------------------------------------- semantic graph

\* The elements of a list, each once, in the order they are first seen (the
\* key order of a Map filled from the list).
RECURSIVE FirstSeen(_)
FirstSeen(seq) ==
    IF seq = << >> THEN << >>
    ELSE LET before == FirstSeen(SubSeq(seq, 1, Len(seq) - 1))
             x == seq[Len(seq)]
         IN  IF ArrayIncludes(before, x) THEN before ELSE Append(before, x)

\* The concatenation of the lists of a list.
RECURSIVE Flatten(_)
Flatten(seqs) == IF seqs = << >> THEN << >> ELSE Head(seqs) \o Flatten(Tail(seqs))

\* The pairs (i, j) the two loops of createSemanticGraph visit, in order,
\* from (i, j) on.
RECURSIVE PairsFrom(_, _, _)
PairsFrom(i, j, n) ==
    IF i > n THEN << >>
    ELSE IF j > n THEN PairsFrom(i + 1, i + 2, n)
    ELSE <<<<i, j>>>> \o PairsFrom(i, j + 1, n)

\* (mutant) two different types are never complementary.
determineEdgeType_NoPairs(api1, api2) ==
    IF api1.metadata.type = api2.metadata.type THEN "same-type" ELSE "cross-type"

complementaryPairs == <<<<"ai", "version-control">>, <<"ai", "storage">>,
                        <<"version-control", "ci-cd">>>>

determineEdgeType(api1, api2) ==
    LET type1 == api1.metadata.type
        type2 == api2.metadata.type
    IN  IF type1 = type2 THEN "same-type"
        ELSE IF \E k \in 1..Len(complementaryPairs) :
                    /\ ArrayIncludes(complementaryPairs[k], type1)
                    /\ ArrayIncludes(complementaryPairs[k], type2)
             THEN "complementary"
             ELSE "cross-type"

\* embeddings.map(...): the nodes.
Nodes(embs) ==
    [i \in 1..Len(embs) |->
        [id |-> embs[i].apiId, type |-> embs[i].metadata.type,
         capabilities |-> embs[i].metadata.capabilities]]

\* The pairs whose similarity is above 0.3, in loop order: what is pushed to
\* `similarities`, and (with the edge type) to `edges`.
Similarities(embs) ==
    LET Sim(pair) == calculateSimilarity(embs[pair[1]].embedding, embs[pair[2]].embedding)
        kept == SelectSeq(PairsFrom(1, 2, Len(embs)),
                          LAMBDA pair : GreaterThan(Sim(pair), EdgeThreshold))
    IN  [k \in 1..Len(kept) |->
            [api1 |-> embs[kept[k][1]].apiId,
             api2 |-> embs[kept[k][2]].apiId,
             similarity |-> Sim(kept[k]),
             sharedCapabilities |->
                SelectSeq(embs[kept[k][1]].metadata.capabilities,
                          LAMBDA cap : ArrayIncludes(embs[kept[k][2]].metadata.capabilities, cap)),
             type |-> determineEdgeType(embs[kept[k][1]], embs[kept[k][2]])]]

Edges(similarities) ==
    [k \in 1..Len(similarities) |->
        [from |-> similarities[k].api1, to |-> similarities[k].api2,
         weight |-> similarities[k].similarity, type |-> similarities[k].type,
         sharedCapabilities |-> similarities[k].sharedCapabilities]]

\* identifyClusters: the groups of a Map are in first-seen key order, and a
\* node is pushed to a group once for each time it has the key.
TypeGroup(nodes, type) ==
    Flatten([i \in 1..Len(nodes) |-> IF nodes[i].type = type THEN <<nodes[i].id>> ELSE << >>])

CapabilityGroup(nodes, capability) ==
    Flatten([i \in 1..Len(nodes) |->
        Flatten([c \in 1..Len(nodes[i].capabilities) |->
            IF nodes[i].capabilities[c] = capability THEN <<nodes[i].id>> ELSE << >>])])

identifyClusters(nodes) ==
    LET types == FirstSeen([i \in 1..Len(nodes) |-> nodes[i].type])
        capabilities == FirstSeen(Flatten([i \in 1..Len(nodes) |-> nodes[i].capabilities]))
        typeClusters ==
            [k \in 1..Len(types) |->
                [id |-> <<"cluster", types[k]>>, type |-> "type-based",
                 members |-> TypeGroup(nodes, types[k])]]
        capabilityClusters ==
            [k \in 1..Len(capabilities) |->
                [id |-> <<"cluster-capability", capabilities[k]>>, type |-> "capability-based",
                 members |-> CapabilityGroup(nodes, capabilities[k])]]
    IN  SelectSeq(typeClusters, LAMBDA cl : Len(cl.members) > 1)
        \o SelectSeq(capabilityClusters, LAMBDA cl : Len(cl.members) > 1)

\* generateRecommendations, first part: one recommendation for each
\* similarity above 0.8.
HighRecommendations(similarities) ==
    LET highSimilarities ==
            SelectSeq(similarities, LAMBDA sim : GreaterThan(sim.similarity, HighSimilarity))
    IN  [k \in 1..Len(highSimilarities) |->
            [type |-> "high-similarity", priority |-> "high",
             title |-> <<"Strong Semantic Match Found">>,
             affectedAPIs |-> <<highSimilarities[k].api1, highSimilarities[k].api2>>]]

\* capabilityClusters.get(capability): the ids of the similarities that
\* share the capability, each pushed when not yet included.
CapabilityAPIs(similarities, capability) ==
    FirstSeen(Flatten([k \in 1..Len(similarities) |->
        IF ArrayIncludes(similarities[k].sharedCapabilities, capability)
        THEN <<similarities[k].api1, similarities[k].api2>>
        ELSE << >>]))

\* (mutant) two providers are enough for a recommendation.
CapabilityRecommendations_Two(similarities) ==
    LET capabilities ==
            FirstSeen(Flatten([k \in 1..Len(similarities) |->
                                  similarities[k].sharedCapabilities]))
        all == [k \in 1..Len(capabilities) |->
                   [type |-> "capability-cluster", priority |-> "medium",
                    title |-> <<"Multiple", capabilities[k], "Providers">>,
                    affectedAPIs |-> CapabilityAPIs(similarities, capabilities[k])]]
    IN  SelectSeq(all, LAMBDA rec : Len(rec.affectedAPIs) >= 2)

\* generateRecommendations, second part.
CapabilityRecommendations(similarities) ==
    LET capabilities ==
            FirstSeen(Flatten([k \in 1..Len(similarities) |->
                                  similarities[k].sharedCapabilities]))
        all == [k \in 1..Len(capabilities) |->
                   [type |-> "capability-cluster", priority |-> "medium",
                    title |-> <<"Multiple", capabilities[k], "Providers">>,
                    affectedAPIs |-> CapabilityAPIs(similarities, capabilities[k])]]
    IN  SelectSeq(all, LAMBDA rec : Len(rec.affectedAPIs) > 2)

\* (mutant) the capability recommendations are emitted first.
generateRecommendations_CapabilityFirst(similarities) ==
    CapabilityRecommendations(similarities) \o HighRecommendations(similarities)

\* generateRecommendations: the two parts push to one list, in this order.
generateRecommendations(similarities) ==
    HighRecommendations(similarities) \o CapabilityRecommendations(similarities)

\* createSemanticGraph: it throws when calculateSimilarity does.
createSemanticGraph(embs) ==
    IF \E i, j \in 1..Len(embs) : Len(embs[i].embedding) # Len(embs[j].embedding)
    THEN [NoGraph EXCEPT !.outcome = "threw"]
    ELSE [outcome |-> "ok",
          nodes |-> Nodes(embs),
          edges |-> Edges(Similarities(embs)),
          clusters |-> identifyClusters(Nodes(embs)),
          recommendations |-> generateRecommendations(Similarities(embs))]

\* generateGraph(embeddings): the graph is built (and formatted) in one
\* synchronous block.
generateGraph ==
    /\ graph = NoGraph
    /\ graph' = createSemanticGraph(embeddings)
    /\ UNCHANGED <<now, heap, activeFlows, nsteps, exec, sugg, added, addResult, route,
                   embeddings, services>>

\* --------------------------------------------------------- specifications

\* The engine with up to MaxFlows flows, made at any of the clock's readings,
\* and a few steps of one kind (suggestOrchestration is in SpecExec and
\* SpecSuggest).
Next ==
    \/ Tick
    \/ \E name \in Names, apis \in ApiLists :
          Len(heap) < MaxFlows /\ CallCreateFlow(name, apis)
    \/ \E id \in Times, step \in RegistryInputs :
          CanAdd(id, Cardinality(RegistrySteps)) /\ CallAddStep(id, step)
    \/ \E id \in Times : deleteFlow(id)
    \/ \E id \in Times : executeFlow(1, id)
    \/ resumeExecuteFlow(1)

Spec == Init /\ [][Next]_vars

\* The engine with a single flow of up to MaxSteps steps of every kind; the
\* clock stays at 0.
NextExec ==
    \/ \E name \in Names, apis \in ApiLists :
          Len(heap) < 1 /\ CallCreateFlow(name, apis)
    \/ \E step \in StepInputs(StepKinds, Orders) :
          CanAdd(0, MaxSteps) /\ CallAddStep(0, step)
    \/ deleteFlow(0)
    \/ executeFlow(1, 0)
    \/ resumeExecuteFlow(1)
    \/ Len(heap) < 1 /\ suggestOrchestration(ReqStoreText)
    \/ suggestDiscoveryFails
    \/ \E apis \in ApiLists : Len(heap) < 1 /\ suggestCreate(apis)
    \/ suggestAfterCreate(MaxSteps)
    \/ suggestAfterQuery(MaxSteps)
    \/ suggestReturn

SpecExec == Init /\ [][NextExec]_vars

\* The engine with two flows and two executeFlow invocations, which may
\* overlap: steps that succeed or fail, given to either flow at any moment.
NextPair ==
    \/ Tick
    \/ \E name \in Names :
          Len(heap) < Cardinality(PairFlows) /\ CallCreateFlow(name, << >>)
    \/ \E id \in Times, step \in PairInputs :
          CanAdd(id, Cardinality(PairSteps)) /\ CallAddStep(id, step)
    \/ \E id \in Times : deleteFlow(id)
    \/ \E p \in Passes, id \in Times : executeFlow(p, id)
    \/ \E p \in Passes : resumeExecuteFlow(p)

SpecPair == Init /\ [][NextPair]_vars

\* findOptimalRoute, called with every pair of ids and every capability, on
\* every list discoverAPIs finds.
NextRoute ==
    \/ \E sourceApi \in RouteIds, targetApi \in RouteIds, capability \in RouteCapabilities :
          findOptimalRoute(sourceApi, targetApi, capability)
    \/ routeDiscoveryFails
    \/ \E apis \in DiscoveryLists : routeDiscovered(apis)
    \/ routeReturn

SpecRoute == Init /\ [][NextRoute]_vars

\* suggestOrchestration, called with every requirement on every list
\* discoverAPIs finds, one call after the other; flows are deleted between
\* calls.
NextSuggest ==
    \/ Tick
    \/ \E req \in Requirements :
          Len(heap) < Cardinality(PairFlows) /\ suggestOrchestration(req)
    \/ suggestDiscoveryFails
    \/ \E apis \in DiscoveryLists : suggestCreate(apis)
    \/ suggestAfterCreate(Cardinality(SuggestSteps))
    \/ suggestAfterQuery(Cardinality(SuggestSteps))
    \/ suggestReturn
    \/ \E id \in Times : sugg.pc \in {"idle", "done"} /\ deleteFlow(id)

SpecSuggest == Init /\ [][NextSuggest]_vars

\* generateGraph, called with each list of up to MaxNodes vectors.
InitGraph ==
    /\ embeddings \in EmbeddingLists
    /\ graph = NoGraph
    /\ route = IdleRoute
    /\ IdleServices
    /\ now = 0
    /\ heap = << >>
    /\ activeFlows = << >>
    /\ nsteps = 0
    /\ exec = [p \in Passes |-> IdleExec]
    /\ sugg = IdleSugg
    /\ added = << >>
    /\ addResult = "none"

NextGraph == generateGraph

SpecGraph == InitGraph /\ [][NextGraph]_vars

\* calculateSimilarity, called with each pair of SimilarityVectors.
InitSimilarity ==
    /\ simCall \in {[IdleSim EXCEPT !.pc = "called", !.embedding1 = a, !.embedding2 = b] :
                       a \in SimilarityVectors, b \in SimilarityVectors}
    /\ embCall = IdleEmb
    /\ engineEmbeddings = << >>
    /\ commandHistory = << >>
    /\ symCalls = << >>
    /\ microtasks = << >>
    /\ embeddings = << >>
    /\ graph = NoGraph
    /\ route = IdleRoute
    /\ now = 0
    /\ heap = << >>
    /\ activeFlows = << >>
    /\ nsteps = 0
    /\ exec = [p \in Passes |-> IdleExec]
    /\ sugg = IdleSugg
    /\ added = << >>
    /\ addResult = "none"

NextSimilarity == callCalculateSimilarity

SpecSimilarity == InitSimilarity /\ [][NextSimilarity]_vars

\* generateEmbeddings, called once with each list of up to MaxApis
\* descriptors under each setting of the provider.
NextEmbed ==
    \/ \E apis \in EmbedLists, configured \in Providers : generateEmbeddings(apis, configured)
    \/ resumeGenerateEmbeddings

SpecEmbed == Init /\ [][NextEmbed]_vars

\* The symbolic protocol handler: executeSymbol called by each of Callers
\* with any symbol and payload at any moment, the continuations run in the
\* order they were queued, and clearHistory called at any moment.
NextProtocol ==
    \/ \E symbol \in HandledSymbols \cup {SuperSymbol, UnknownSymbol}, payload \in Payloads :
          executeSymbol(symbol, payload)
    \/ resumeExecuteSymbol
    \/ resumeExecuteSuperSymbol
    \/ clearHistory

SpecProtocol == Init /\ [][NextProtocol]_vars

\* The same, with the continuations that are queued eventually run: the
\* runtime empties the microtask queue before it does anything else.
FairProtocol ==
    /\ SpecProtocol
    /\ WF_vars(resumeExecuteSymbol)
    /\ WF_vars(resumeExecuteSuperSymbol)

\* ================================================================ claims

Terminal == {"completed", "failed"}

\* C1 (as claimed): once a flow's status is `completed` or `failed`, no engine
\* operation changes it.
C1_TerminalStatusStays ==
    [][\A o \in 1..Len(heap) :
          heap[o].status \in Terminal => heap'[o].status = heap[o].status]_vars

\* C2: when the handler of a step fails, the pass throws, the flow's status is
\* `failed` at that moment, and executeStep is called for no further step: in
\* every pass, every step dispatched before the latest one was fulfilled, and a
\* pass that no addStep call shifted has run exactly the steps of the list up
\* to the failing one (the earlier ones stay executed).
C2_FailFast ==
    \A p \in Passes :
        LET e == exec[p]
            k == Len(e.invoked)
        IN  /\ \A j \in 1..(k - 1) : executeStep(StepObj(e.invoked[j])) = "ok"
            /\ ( /\ e.pc = "done"
                 /\ k > 0
                 /\ executeStep(StepObj(e.invoked[k])) = "TypeError" )
               => /\ e.outcome = "threw"
                  /\ e.endStatus = "failed"
                  /\ ~e.shifted => e.invoked = SubSeq(e.final, 1, k)

\* C2, witness: step 2 of 3 failed in its handler; step 3 was not dispatched.
C2_Witness ==
    /\ exec[1].pc = "done"
    /\ exec[1].outcome = "threw"
    /\ Len(exec[1].invoked) = 2
    /\ Len(exec[1].final) = 3
    /\ executeStep(StepObj(exec[1].invoked[2])) = "TypeError"
    /\ heap[exec[1].flow].status = "failed"

C4_Sequential ==
    \A p \in Passes :
        LET e == exec[p]
        IN  /\ e.invoked # << >> => e.startStatus = "running"
            /\ Cardinality(e.inflight) <= 1
            /\ e.pc = "await" => e.inflight = {e.invoked[Len(e.invoked)]}
            /\ e.pc # "await" => e.inflight = {}

\* C4, witness: the second step of a pass is in flight, the first completed.
C4_Witness ==
    /\ exec[1].pc = "await"
    /\ Len(exec[1].invoked) = 2
    /\ exec[1].invoked[1] # exec[1].invoked[2]
    /\ exec[1].inflight = {exec[1].invoked[2]}
    /\ heap[exec[1].flow].status = "running"

\* C5: a flow's step list holds exactly the steps added to it, one per call,
\* in ascending `order`, steps of equal `order` in the order they were added.
C5_SortedStable ==
    \A o \in 1..Len(heap) :
        LET st == heap[o].steps
        IN  /\ Len(st) = Len(added[o])
            /\ {st[i] : i \in 1..Len(st)} = {added[o][i] : i \in 1..Len(added[o])}
            /\ \A i, j \in 1..Len(st) :
                  i < j => \/ st[i].order < st[j].order
                           \/ st[i].order = st[j].order /\ st[i].n < st[j].n

\* C5, witness: three steps; the one added last has the smallest order and is
\* first, the other two have equal order.
C5_Witness ==
    \E o \in 1..Len(heap) :
        /\ Len(heap[o].steps) = 3
        /\ heap[o].steps[1].n = 3
        /\ heap[o].steps[2].order = heap[o].steps[3].order
        /\ heap[o].steps[1].order < heap[o].steps[2].order

\* C6 (as claimed): a pass is unaffected by a step added, while it is
\* suspended, at or before the position it has reached: it calls the handler
\* of each step at most once.
C6_ShiftHarmless ==
    \A p \in Passes :
        exec[p].shifted =>
            \A i, j \in 1..Len(exec[p].invoked) :
                i # j => exec[p].invoked[i] # exec[p].invoked[j]

\* C7 (as claimed): no two flows have the same id, and no two steps of a flow
\* have the same id.
C7_FreshIds ==
    /\ \A o1, o2 \in 1..Len(heap) : o1 # o2 => heap[o1].id # heap[o2].id
    /\ \A o \in 1..Len(heap) : \A i, j \in 1..Len(heap[o].steps) :
          i # j => heap[o].steps[i].id # heap[o].steps[j].id

\* C8 (as claimed): a registered flow stays registered (getFlow(id) returns
\* it) through every step that is not deleteFlow of its id.
C8_StaysUntilDeleted ==
    [][\A o \in 1..Len(heap) :
          ( /\ heap[o].id \in DOMAIN activeFlows
            /\ activeFlows[heap[o].id] = o
            /\ ~( /\ heap[o].id \in DOMAIN activeFlows'
                  /\ activeFlows'[heap[o].id] = o ) )
          => deleteFlow(heap[o].id)]_vars

\* C9: createOrchestrationFlow(name, apis) makes a flow that is `pending`, has
\* no steps, the given name and the ids of the given descriptors, and is what
\* getFlow returns for its id afterwards; every other flow object is left as it
\* was; and the call is possible for every name and list, the empty one too.
C9_CreateFlow ==
    [][\A name \in Names, apis \in ApiLists :
          /\ Len(heap) < MaxFlows => ENABLED CallCreateFlow(name, apis)
          /\ createOrchestrationFlow(name, apis) =>
                LET o == Len(heap')
                IN  /\ o = Len(heap) + 1
                    /\ heap'[o].status = "pending"
                    /\ heap'[o].steps = << >>
                    /\ heap'[o].name = name
                    /\ heap'[o].apis = [i \in 1..Len(apis) |-> apis[i].id]
                    /\ heap'[o].id \in DOMAIN activeFlows'
                    /\ activeFlows'[heap'[o].id] = o
                    /\ \A r \in 1..Len(heap) : heap'[r] = heap[r]]_vars

\* C9, witness: a second flow was just created, with an empty API list.
C9_Witness ==
    /\ Len(heap) = 2
    /\ heap[2].apis = << >>
    /\ heap[2].status = "pending"
    /\ heap[2].steps = << >>
    /\ heap[1].apis # << >>
    /\ getFlow(heap[2].id) = 2

\* C10: addOrchestrationStep and executeFlow on an id that is not registered
\* end with a flow-not-found error and change nothing: no flow object is made
\* or changed, the registry is as before, and no step is dispatched.
C10_NotFound ==
    [][\A id \in Times :
          id \notin DOMAIN activeFlows =>
             /\ \A step \in RegistryInputs :
                   CallAddStep(id, step) =>
                      /\ addResult' = "FlowNotFound"
                      /\ UNCHANGED <<heap, activeFlows, nsteps, exec>>
             /\ \A p \in Passes :
                   executeFlow(p, id) =>
                      /\ exec'[p].outcome = "FlowNotFound"
                      /\ exec'[p].invoked = << >>
                      /\ exec'[p].pc = "done"
                      /\ UNCHANGED <<heap, activeFlows, nsteps>>]_vars

\* C10, witness: both calls have failed on the id of a deleted flow.
C10_Witness ==
    /\ Len(heap) >= 1
    /\ heap[1].id \notin DOMAIN activeFlows
    /\ addResult = "FlowNotFound"
    /\ exec[1].outcome = "FlowNotFound"
    /\ exec[1].pc = "done"

\* C11: a step whose action tag is none of authenticate, query, transform,
\* forward is the last step its pass dispatches; its promise is rejected by the
\* default branch of executeStep (no handler's result), the pass throws with
\* the flow `failed`, and a pass that no addStep call shifted has dispatched
\* exactly the steps of the list up to that one.
C11_UnknownAction ==
    \A p \in Passes :
        LET e == exec[p]
            k == Len(e.invoked)
        IN  \A j \in 1..k :
               StepObj(e.invoked[j]).action \notin KnownActions =>
                  /\ j = k
                  /\ HandlerOf(StepObj(e.invoked[j])) = "none"
                  /\ e.pc = "await" => e.res = "UnknownAction"
                  /\ e.pc = "done" =>
                        /\ e.outcome = "threw"
                        /\ e.endStatus = "failed"
                        /\ ~e.shifted => e.invoked = SubSeq(e.final, 1, k)

\* C11, witness: step 2 of 3 has the unknown tag `sync`; the pass threw after
\* the first step succeeded, and step 3 was not dispatched.
C11_Witness ==
    /\ exec[1].pc = "done"
    /\ exec[1].outcome = "threw"
    /\ Len(exec[1].invoked) = 2
    /\ Len(exec[1].final) = 3
    /\ ~exec[1].shifted
    /\ StepObj(exec[1].invoked[1]).action \in KnownActions
    /\ StepObj(exec[1].invoked[2]).action = "sync"
    /\ heap[exec[1].flow].status = "failed"

\* C13: deleteFlow(id) leaves no registry entry for id, is possible whether or
\* not id is registered, and leaves every other registry entry and every flow
\* object (its steps and status) as it was.
C13_DeleteFrame ==
    [][\A id \in Times :
          /\ ENABLED deleteFlow(id)
          /\ deleteFlow(id) =>
                /\ id \notin DOMAIN activeFlows'
                /\ DOMAIN activeFlows' = DOMAIN activeFlows \ {id}
                /\ \A k \in DOMAIN activeFlows' : activeFlows'[k] = activeFlows[k]
                /\ heap' = heap]_vars

\* C13, witness: of two registered flows, the second with a step, the first
\* was deleted and the second is still registered.
C13_Witness ==
    /\ Len(heap) = 2
    /\ heap[1].id # heap[2].id
    /\ heap[1].id \notin DOMAIN activeFlows
    /\ getFlow(heap[2].id) = 2
    /\ Len(heap[2].steps) = 1

\* What a pass that runs alone does on a step list: it dispatches the steps
\* up to the first one that fails, and leaves the flow `failed` if there is
\* one, `completed` if not.
RunAlone(steps) ==
    LET bad == {i \in 1..Len(steps) : executeStep(StepObj(steps[i])) # "ok"}
        k == IF bad = {} THEN Len(steps) ELSE CHOOSE i \in bad : \A j \in bad : i <= j
    IN  [invoked |-> SubSeq(steps, 1, k),
         status |-> IF bad = {} THEN "completed" ELSE "failed"]

\* Flow object o is the one registered under its id.
Registered(o) == heap[o].id \in DOMAIN activeFlows /\ activeFlows[heap[o].id] = o

\* One step of an operation on flow object a: addStep, executeFlow or
\* deleteFlow with its id, or the resumption of a pass that runs on it.
OpOn(a) ==
    \/ \E step \in PairInputs : CallAddStep(heap[a].id, step)
    \/ \E p \in Passes : executeFlow(p, heap[a].id)
    \/ \E p \in Passes : exec[p].flow = a /\ resumeExecuteFlow(p)
    \/ deleteFlow(heap[a].id)

\* C12: for two distinct registered flows A and B, no step of an operation on
\* A changes B (its status and step list), B's registry entry or a pass in
\* progress on B; and every pass that has run to its end has dispatched the
\* steps, and left the status, that a pass running alone on its flow's list
\* does (passes shifted by an addStep on their own flow aside: C6).
C12_Independent ==
    [][/\ \A a, b \in 1..Len(heap) :
             (a # b /\ Registered(a) /\ Registered(b) /\ OpOn(a)) =>
                /\ heap'[b] = heap[b]
                /\ heap'[b].id \in DOMAIN activeFlows'
                /\ activeFlows'[heap'[b].id] = b
                /\ \A p \in Passes :
                      (exec[p].flow = b /\ exec[p].pc = "await") => exec'[p] = exec[p]
       /\ \A p \in Passes :
             (exec'[p].pc = "done" /\ exec'[p].outcome # "FlowNotFound" /\ ~exec'[p].shifted)
             => /\ exec'[p].invoked = RunAlone(exec'[p].final).invoked
                /\ exec'[p].endStatus = RunAlone(exec'[p].final).status]_vars

\* C12, witness: passes on A and on B are suspended at the same moment, the
\* one on B at its second step; A has been deleted meanwhile.
C12_Witness ==
    /\ Len(heap) = 2
    /\ heap[1].id # heap[2].id
    /\ exec[1].flow = 1 /\ exec[1].pc = "await"
    /\ exec[2].flow = 2 /\ exec[2].pc = "await"
    /\ Len(exec[2].invoked) = 2
    /\ Len(heap[1].steps) = 1
    /\ heap[1].id \notin DOMAIN activeFlows
    /\ Registered(2)

\* C14: the route findOptimalRoute returns has 2 or 3 elements, the source
\* first and the target last; it has 3 exactly when some discovered descriptor
\* whose id is neither the source nor the target declares the capability, and
\* its middle element is then the id of the first such descriptor of the list.
C14_Route ==
    (route.pc = "done" /\ route.outcome = "ok") =>
        LET r == route.result
            apis == route.apis
            cands == {i \in 1..Len(apis) :
                        /\ apis[i].id \notin {route.sourceApi, route.targetApi}
                        /\ \E c \in 1..Len(apis[i].capabilities) :
                              apis[i].capabilities[c] = route.capability}
        IN  /\ Len(r) \in {2, 3}
            /\ r[1] = route.sourceApi
            /\ r[Len(r)] = route.targetApi
            /\ Len(r) = 3 <=> cands # {}
            /\ Len(r) = 3 =>
                  r[2] = apis[CHOOSE i \in cands : \A j \in cands : i <= j].id

\* C14, witness: a route of 3 whose middle is the third descriptor found (the
\* first one that qualifies: the first found is the source, the second does
\* not declare the capability).
C14_Witness ==
    /\ route.pc = "done"
    /\ route.outcome = "ok"
    /\ route.apis = <<GitHub, OpenAI, HuggingFace>>
    /\ route.result = <<"github", "hugging face", "openai">>

\* The text contains the (lower-case) word, whatever the case of its letters.
ContainsWord(text, word) ==
    \E i \in 1..(Len(text) - Len(word) + 1) :
        \A k \in 1..Len(word) :
            \/ text[i + k - 1] = word[k]
            \/ \E c \in 1..26 : UpperCase[c] = text[i + k - 1] /\ LowerCase[c] = word[k]

\* What a flow's steps are, for a caller: action, target and order.
StepsView(steps) ==
    [i \in 1..Len(steps) |->
        [action |-> steps[i].action, apiId |-> steps[i].apiId, order |-> steps[i].order]]

\* C15: when suggestOrchestration(requirement) returns (no other call having
\* been made on its flow meanwhile), its flow is the one just created, is
\* registered and `pending`, and its steps are: a `query` step of order 1 on
\* the first discovered descriptor of type `ai`, iff the requirement contains
\* text or content and there is such a descriptor; then a `forward` step of
\* order 2 on the first discovered descriptor with capability
\* repository-management or type version-control, iff the requirement
\* contains save or store and there is such a descriptor.
C15_Suggest ==
    [][(sugg.pc \notin {"idle", "done"} /\ sugg'.pc = "done" /\ sugg'.outcome = "ok") =>
          LET o == sugg'.flow
              apis == sugg.apis
              ai == {i \in 1..Len(apis) : apis[i].type = "ai"}
              st == {i \in 1..Len(apis) :
                       \/ \E c \in 1..Len(apis[i].capabilities) :
                             apis[i].capabilities[c] = "repository-management"
                       \/ apis[i].type = "version-control"}
              text == \/ ContainsWord(sugg.req, <<"t", "e", "x", "t">>)
                      \/ ContainsWord(sugg.req, <<"c", "o", "n", "t", "e", "n", "t">>)
              store == \/ ContainsWord(sugg.req, <<"s", "a", "v", "e">>)
                       \/ ContainsWord(sugg.req, <<"s", "t", "o", "r", "e">>)
              First(set) == CHOOSE i \in set : \A j \in set : i <= j
          IN  /\ o = Len(heap')
              /\ heap'[o].id \in DOMAIN activeFlows'
              /\ activeFlows'[heap'[o].id] = o
              /\ heap'[o].status = "pending"
              /\ StepsView(heap'[o].steps) =
                    (IF text /\ ai # {}
                     THEN <<[action |-> "query", apiId |-> apis[First(ai)].id, order |-> 1]>>
                     ELSE << >>)
                    \o (IF store /\ st # {}
                        THEN <<[action |-> "forward", apiId |-> apis[First(st)].id, order |-> 2]>>
                        ELSE << >>)]_vars

\* C15, witness: the requirement `Store TEXT` on a list whose first `ai`
\* descriptor is third and whose first repository is first has given a query
\* step on the one and a forward step on the other, in this order.
C15_Witness ==
    /\ sugg.pc = "done"
    /\ sugg.outcome = "ok"
    /\ heap[sugg.flow].name = AutoName(ReqStoreText)
    /\ heap[sugg.flow].apis = MapIds(<<GitLab, GitHub, HuggingFace, OpenAI>>)
    /\ StepsView(heap[sugg.flow].steps) =
          <<[action |-> "query", apiId |-> "hugging face", order |-> 1],
            [action |-> "forward", apiId |-> "gitlab", order |-> 2]>>
    /\ heap[sugg.flow].status = "pending"

\* The list positions i < j of the vectors a graph is built from.
PositionPairs == {pair \in (1..Len(embeddings)) \X (1..Len(embeddings)) : pair[1] < pair[2]}

\* The similarity computed for a pair of positions.
SimilarityOf(pair) ==
    calculateSimilarity(embeddings[pair[1]].embedding, embeddings[pair[2]].embedding)

\* The elements of a list, as a set.
Range(seq) == {seq[i] : i \in 1..Len(seq)}

\* C16 (as claimed): in a graph built, there is one edge for each pair of
\* list positions whose similarity is above 0.3 and no other edge; every
\* edge's weight is above 0.3; no edge joins a node (an id) to itself; both
\* ends of every edge are ids of nodes; no two edges join the same two nodes.
C16_Edges ==
    graph.outcome = "ok" =>
        LET edges == graph.edges
            close == {pair \in PositionPairs : GreaterThan(SimilarityOf(pair), EdgeThreshold)}
        IN  /\ Len(edges) = Cardinality(close)
            /\ \A pair \in close : \E k \in 1..Len(edges) :
                  /\ edges[k].from = embeddings[pair[1]].apiId
                  /\ edges[k].to = embeddings[pair[2]].apiId
                  /\ edges[k].weight = SimilarityOf(pair)
            /\ \A k \in 1..Len(edges) :
                  /\ GreaterThan(edges[k].weight, EdgeThreshold)
                  /\ edges[k].from # edges[k].to
                  /\ \E i, j \in 1..Len(graph.nodes) :
                        graph.nodes[i].id = edges[k].from /\ graph.nodes[j].id = edges[k].to
            /\ \A k, l \in 1..Len(edges) :
                  k # l => {edges[k].from, edges[k].to} # {edges[l].from, edges[l].to}

\* The node of an id (nodes of one id have one type and one capability list).
NodeOf(id) == graph.nodes[CHOOSE i \in 1..Len(graph.nodes) : graph.nodes[i].id = id]

\* C17: every edge's kind is same-type if its two nodes have one type, else
\* complementary if their two types are ai and version-control, ai and
\* storage, or version-control and ci-cd, else cross-type; the kind computed
\* for two vectors is the same in both orders; and the edge's
\* sharedCapabilities are the capabilities both nodes have.
C17_EdgeKind ==
    graph.outcome = "ok" =>
        /\ \A k \in 1..Len(graph.edges) :
              LET edge == graph.edges[k]
                  type1 == NodeOf(edge.from).type
                  type2 == NodeOf(edge.to).type
              IN  /\ edge.type =
                        IF type1 = type2 THEN "same-type"
                        ELSE IF {type1, type2} \in {{"ai", "version-control"}, {"ai", "storage"},
                                                     {"version-control", "ci-cd"}}
                             THEN "complementary"
                             ELSE "cross-type"
                  /\ Range(edge.sharedCapabilities) =
                        Range(NodeOf(edge.from).capabilities)
                           \cap Range(NodeOf(edge.to).capabilities)
        /\ \A i, j \in 1..Len(embeddings) :
              determineEdgeType(embeddings[i], embeddings[j])
                 = determineEdgeType(embeddings[j], embeddings[i])

\* C17, witness: a graph with a complementary edge from a version-control
\* node to an ai node that share nothing, a complementary edge that shares
\* `embeddings`, and a cross-type edge.
C17_Witness ==
    /\ graph.outcome = "ok"
    /\ \E k \in 1..Len(graph.edges) :
          /\ graph.edges[k].type = "complementary"
          /\ graph.edges[k].from = "github"
          /\ graph.edges[k].to = "openai"
          /\ graph.edges[k].sharedCapabilities = << >>
    /\ \E k \in 1..Len(graph.edges) :
          /\ graph.edges[k].type = "complementary"
          /\ graph.edges[k].sharedCapabilities = <<"embeddings">>
    /\ \E k \in 1..Len(graph.edges) : graph.edges[k].type = "cross-type"

\* C18 (as claimed): a graph built has a type cluster for a type exactly when
\* at least 2 nodes have the type, and a capability cluster for a capability
\* exactly when at least 2 nodes declare it; the members of a cluster are the
\* ids of the nodes of its group, and name at least 2 distinct nodes.
C18_Clusters ==
    graph.outcome = "ok" =>
        LET nodes == graph.nodes
            clusters == graph.clusters
            OfType(type) == {i \in 1..Len(nodes) : nodes[i].type = type}
            Declaring(cap) == {i \in 1..Len(nodes) : cap \in Range(nodes[i].capabilities)}
            types == {nodes[i].type : i \in 1..Len(nodes)}
            caps == UNION {Range(nodes[i].capabilities) : i \in 1..Len(nodes)}
            Count(kind, id) ==
                Cardinality({k \in 1..Len(clusters) :
                                clusters[k].type = kind /\ clusters[k].id = id})
        IN  /\ \A type \in types :
                  Count("type-based", <<"cluster", type>>)
                     = IF Cardinality(OfType(type)) >= 2 THEN 1 ELSE 0
            /\ \A cap \in caps :
                  Count("capability-based", <<"cluster-capability", cap>>)
                     = IF Cardinality(Declaring(cap)) >= 2 THEN 1 ELSE 0
            /\ \A k \in 1..Len(clusters) :
                  /\ Cardinality(Range(clusters[k].members)) >= 2
                  /\ \/ /\ clusters[k].type = "type-based"
                        /\ \E type \in types :
                              /\ clusters[k].id = <<"cluster", type>>
                              /\ Range(clusters[k].members) = {nodes[i].id : i \in OfType(type)}
                     \/ /\ clusters[k].type = "capability-based"
                        /\ \E cap \in caps :
                              /\ clusters[k].id = <<"cluster-capability", cap>>
                              /\ Range(clusters[k].members) = {nodes[i].id : i \in Declaring(cap)}

\* C19 (as claimed): for every pair of vectors whose similarity is above 0.8
\* the recommendations have exactly one high-similarity entry, of priority
\* high, whose affected ids are the pair's two ids; for a pair whose
\* similarity is not above 0.8 they have none.
C19_HighSimilarity ==
    graph.outcome = "ok" =>
        LET recs == graph.recommendations
            For(pair) ==
                {k \in 1..Len(recs) :
                    /\ recs[k].type = "high-similarity"
                    /\ Len(recs[k].affectedAPIs) = 2
                    /\ Range(recs[k].affectedAPIs) =
                          {embeddings[pair[1]].apiId, embeddings[pair[2]].apiId}}
        IN  /\ \A pair \in PositionPairs :
                  Cardinality(For(pair)) =
                     IF GreaterThan(SimilarityOf(pair), HighSimilarity) THEN 1 ELSE 0
            /\ \A k \in 1..Len(recs) :
                  recs[k].type = "high-similarity" =>
                     /\ recs[k].priority = "high"
                     /\ \E pair \in PositionPairs : k \in For(pair)

\* The ids that are an end of some edge sharing the capability.
Participants(capability) ==
    UNION {{graph.edges[k].from, graph.edges[k].to} :
              k \in {l \in 1..Len(graph.edges) :
                        capability \in Range(graph.edges[l].sharedCapabilities)}}

\* C20: for every capability shared on some edge, the recommendations have
\* exactly one capability-cluster entry for it, of priority medium, whose
\* affected ids are the ids that are an end of an edge sharing it, each once,
\* when these are more than 2, and none when they are not; and there is no
\* other capability-cluster entry.
C20_CapabilityCluster ==
    graph.outcome = "ok" =>
        LET recs == graph.recommendations
            shared == UNION {Range(graph.edges[k].sharedCapabilities) :
                               k \in 1..Len(graph.edges)}
            For(cap) == {k \in 1..Len(recs) :
                           /\ recs[k].type = "capability-cluster"
                           /\ recs[k].title = <<"Multiple", cap, "Providers">>}
        IN  /\ \A cap \in shared :
                  IF Cardinality(Participants(cap)) > 2
                  THEN /\ Cardinality(For(cap)) = 1
                       /\ \A k \in For(cap) :
                             /\ recs[k].priority = "medium"
                             /\ Range(recs[k].affectedAPIs) = Participants(cap)
                             /\ Len(recs[k].affectedAPIs) = Cardinality(Participants(cap))
                  ELSE For(cap) = {}
            /\ \A k \in 1..Len(recs) :
                  recs[k].type = "capability-cluster" => \E cap \in shared : k \in For(cap)

\* C20, witness: three ai nodes, every two joined by an edge sharing
\* `text-generation`, and the recommendation naming the three; `classification`
\* is shared on one edge only and has no recommendation.
C20_Witness ==
    /\ graph.outcome = "ok"
    /\ Len(graph.edges) = 3
    /\ \E k \in 1..Len(graph.recommendations) :
          /\ graph.recommendations[k].type = "capability-cluster"
          /\ graph.recommendations[k].title = <<"Multiple", "text-generation", "Providers">>
          /\ graph.recommendations[k].affectedAPIs = <<"openai", "hugging face", "cohere">>
    /\ \E k \in 1..Len(graph.edges) :
          "classification" \in Range(graph.edges[k].sharedCapabilities)
    /\ \A k \in 1..Len(graph.recommendations) :
          graph.recommendations[k].title # <<"Multiple", "classification", "Providers">>

\* C21: in a graph built, the edges are in the order of their pairs of list
\* positions (i, j), i < j; the recommendations are the high-similarity ones
\* followed by the capability-cluster ones; the high-similarity ones are, in
\* order, those of the edges of weight above 0.8; and the capability-cluster
\* ones are in the order in which their capability is first met on the edges
\* (edge after edge, and within an edge in the order of its shared
\* capabilities).
C21_Order ==
    graph.outcome = "ok" =>
        LET recs == graph.recommendations
            edges == graph.edges
            high == SelectSeq(recs, LAMBDA rec : rec.type = "high-similarity")
            caps == SelectSeq(recs, LAMBDA rec : rec.type = "capability-cluster")
            strong == SelectSeq(edges, LAMBDA edge : GreaterThan(edge.weight, HighSimilarity))
            close == {pair \in PositionPairs : GreaterThan(SimilarityOf(pair), EdgeThreshold)}
            Before(p, q) == p[1] < q[1] \/ (p[1] = q[1] /\ p[2] < q[2])
            FirstMet(cap) ==
                LET k == CHOOSE l \in 1..Len(edges) :
                            /\ cap \in Range(edges[l].sharedCapabilities)
                            /\ \A m \in 1..(l - 1) : cap \notin Range(edges[m].sharedCapabilities)
                    c == CHOOSE d \in 1..Len(edges[k].sharedCapabilities) :
                            edges[k].sharedCapabilities[d] = cap
                IN  <<k, c>>
        IN  /\ recs = high \o caps
            /\ \A pair \in close :
                  LET k == 1 + Cardinality({q \in close : Before(q, pair)})
                  IN  /\ k <= Len(edges)
                      /\ edges[k].from = embeddings[pair[1]].apiId
                      /\ edges[k].to = embeddings[pair[2]].apiId
                      /\ edges[k].weight = SimilarityOf(pair)
            /\ Len(high) = Len(strong)
            /\ \A k \in 1..Len(high) :
                  high[k].affectedAPIs = <<strong[k].from, strong[k].to>>
            /\ \A k \in 1..Len(caps) :
                  \E l \in 1..Len(edges) : caps[k].title[2] \in Range(edges[l].sharedCapabilities)
            /\ \A a, b \in 1..Len(caps) :
                  a < b => Before(FirstMet(caps[a].title[2]), FirstMet(caps[b].title[2]))

\* C21, witness: a graph of three ai nodes whose recommendations are one
\* high-similarity entry (of the third edge) followed by the entries of
\* `text-generation` and `embeddings`, both first met on the first edge.
C21_Witness ==
    /\ graph.outcome = "ok"
    /\ Len(graph.edges) = 3
    /\ Len(graph.recommendations) = 3
    /\ graph.recommendations[1].type = "high-similarity"
    /\ graph.recommendations[1].affectedAPIs = <<graph.edges[3].from, graph.edges[3].to>>
    /\ graph.recommendations[2].title = <<"Multiple", "text-generation", "Providers">>
    /\ graph.recommendations[3].title = <<"Multiple", "embeddings", "Providers">>
    /\ graph.edges[1].sharedCapabilities = <<"text-generation", "embeddings">>

\* The number 1, and |x| <= 1 for a finite number x.
One == [kind |-> "finite", sign |-> 1, man |-> ShiftLeftBits(<<1>>, Precision - 1),
        exp |-> 1 - Precision]

AbsAtMostOne(x) ==
    /\ x.kind = "finite"
    /\ \/ x.sign = 0
       \/ x.exp + Precision <= 0
       \/ x.exp = One.exp /\ x.man = One.man

IsZeroVector(embedding) == \A i \in 1..Len(embedding) : embedding[i] = 0

\* C22: a calculateSimilarity call throws, and gives no score, exactly when
\* its two vectors differ in length; with vectors of one length (0 included)
\* it returns a number.
C22_DimensionMismatch ==
    simCall.pc # "called" =>
        /\ simCall.pc = "threw" <=> Len(simCall.embedding1) # Len(simCall.embedding2)
        /\ simCall.pc = "threw" => simCall.value = NoNumber
        /\ simCall.pc = "returned" => simCall.value.kind \in {"finite", "NaN", "Infinity"}

\* C22, witness: a call with vectors of lengths 1 and 3 has thrown.
C22_Witness ==
    /\ simCall.pc = "threw"
    /\ Len(simCall.embedding1) = 1
    /\ Len(simCall.embedding2) = 3

\* C23: a call with two vectors of one length, one of them all zeros,
\* returns the number 0 (not NaN), whatever the other vector is.
C23_ZeroVector ==
    /\ simCall.pc # "called"
    /\ Len(simCall.embedding1) = Len(simCall.embedding2)
    /\ IsZeroVector(simCall.embedding1) \/ IsZeroVector(simCall.embedding2)
    => simCall.pc = "returned" /\ simCall.value = Zero

\* C23, witness: a call with a non-zero vector and the zero vector of its
\* length has returned 0.
C23_Witness ==
    /\ simCall.pc = "returned"
    /\ simCall.embedding1 = <<1, 1, 1>>
    /\ simCall.embedding2 = <<0, 0, 0>>
    /\ simCall.value = Zero

\* C24: what a call has given for (a, b) is what calculateSimilarity gives
\* for (b, a): the same number, or a throw in both orders.
C24_Symmetric ==
    simCall.pc # "called" =>
        LET swapped == calculateSimilarity(simCall.embedding2, simCall.embedding1)
        IN  /\ simCall.pc = "threw" <=> swapped.kind = "throws"
            /\ simCall.pc = "returned" => simCall.value = NumberOf(swapped)

\* C24, witness: a call with two different non-zero vectors that are not
\* orthogonal has returned.
C24_Witness ==
    /\ simCall.pc = "returned"
    /\ simCall.embedding1 = <<1, 2>>
    /\ simCall.embedding2 = <<-1, 1>>
    /\ simCall.value.sign = 1

\* C25 (as claimed): a call with a non-zero vector and itself returns 1, and
\* every number returned is in [-1, 1].
C25_SelfAndRange ==
    simCall.pc = "returned" =>
        /\ simCall.embedding1 = simCall.embedding2 /\ ~ IsZeroVector(simCall.embedding1)
              => simCall.value = One
        /\ AbsAtMostOne(simCall.value)

\* C26: a generateEmbeddings call never ends by throwing; when it has
\* returned, the embedding call of every descriptor of the list has been
\* made, also after one that failed, and the list returned has, in input
\* order, one record for each descriptor whose call succeeded, with the
\* descriptor's id, name, type, capabilities and description.
C26_PartialFailure ==
    /\ embCall.pc \in {"idle", "loop", "done"}
    /\ embCall.pc = "done" =>
          LET apis == embCall.apis
              result == embCall.embeddings
              succeeded == {i \in 1..Len(embCall.outcomes) : embCall.outcomes[i] = "ok"}
          IN  /\ Len(embCall.outcomes) = Len(apis)
              /\ Len(result) = Cardinality(succeeded)
              /\ \A i \in succeeded :
                    LET k == Cardinality({j \in succeeded : j <= i})
                    IN  /\ result[k].apiId = apis[i].id
                        /\ result[k].metadata.name = apis[i].name
                        /\ result[k].metadata.type = apis[i].type
                        /\ result[k].metadata.capabilities = apis[i].capabilities
                        /\ result[k].metadata.description = apis[i].description

\* C26, witness: a call with a descriptor whose embedding call fails
\* followed by one whose call succeeds has returned the second one's record.
C26_Witness ==
    /\ embCall.pc = "done"
    /\ embCall.apis = <<ApiBroken, ApiB>>
    /\ embCall.outcomes = <<"failed", "ok">>
    /\ Len(embCall.embeddings) = 1
    /\ embCall.embeddings[1].apiId = "b"

\* C28 (as claimed): the vector of every record returned is the fold of the
\* whole text signature of its descriptor: component p is the sum of the
\* character codes at all indices i of the signature with i mod 384 = p
\* (over 1000), divided by the norm of these sums.
C28_FoldsEveryCharacter ==
    \A k \in 1..Len(embCall.embeddings) :
        LET md == embCall.embeddings[k].metadata
            signature == md.name \o <<" ">> \o md.type \o <<" ">> \o md.description
                            \o <<" ">> \o Join(md.capabilities)
            sums == [p \in 1..Dimension |->
                        SumCodes(signature, {i \in 0..(Len(signature) - 1) :
                                                i % Dimension = p - 1})]
            vector == embCall.embeddings[k].embedding
        IN  /\ vector.numerators = sums
            /\ vector.sq = SumRange([p \in 1..Dimension |-> sums[p] * sums[p]], 1, Dimension)

\* C29 (as claimed): the status of every registered flow is `running`
\* exactly when some executeFlow invocation on it has started and not yet
\* finished (so it is never `pending`, `completed` or `failed` during one),
\* also when two invocations on the flow overlap.
C29_RunningWhileInProgress ==
    \A o \in Refs :
        Registered(o) =>
            (heap[o].status = "running"
                <=> \E p \in Passes : exec[p].pc = "await" /\ exec[p].flow = o)


\* The invocations, by number, and those the loop of invocation s called,
\* in call order.
CallIds == [c \in 1..Len(symCalls) |-> c]
StepCalls(s) == SelectSeq(CallIds, LAMBDA c : symCalls[c].parent = s)

\* The numbers an invocation can have: each caller's own, and five more for
\* a super symbol.
MaxCallId == Cardinality(Callers) * 6

\* C27 (safety part): of every executeSymbol invocation with the super
\* symbol, the executeSymbol invocations it made so far are for the first
\* symbols of *, #, ´, CLaK:, <<RE:UNITY>> in that order, each but the last
\* has returned (one finishes before the next starts), and once the
\* invocation has returned it made all five, each once, all returned, and
\* its result has success = true and a message that begins with
\* 'Super symbol executed'.
C27_Order ==
    \A s \in DOMAIN symCalls :
        symCalls[s].symbol = "-/-\\-" =>
            LET called == StepCalls(s)
                five == <<"*", "#", "´", "CLaK:", "<<RE:UNITY>>">>
            IN  /\ Len(called) \in 1..5
                /\ \A k \in 1..Len(called) : symCalls[called[k]].symbol = five[k]
                /\ \A k \in 1..(Len(called) - 1) : symCalls[called[k]].pc = "returned"
                /\ symCalls[s].pc = "returned" =>
                      /\ Len(called) = 5
                      /\ symCalls[called[5]].pc = "returned"
                      /\ symCalls[s].result.success = TRUE
                      /\ symCalls[s].result.message[1] = "Super symbol executed with "

\* C27: executeSymbol with the super symbol executes the five individual
\* symbols exactly once each, in that order, each finishing before the next
\* starts, and returns success = true with a message containing 'Super
\* symbol executed': the safety part always holds, and every invocation with
\* the super symbol returns.
C27_SuperSymbol ==
    /\ []C27_Order
    /\ \A s \in 1..MaxCallId :
          (s \in DOMAIN symCalls /\ symCalls[s].symbol = "-/-\\-")
              ~> (/\ s \in DOMAIN symCalls
                  /\ symCalls[s].pc = "returned"
                  /\ symCalls[s].result.success)

\* A super symbol invocation with the payload {} has returned, after its
\* five steps, while an invocation of another caller was made in between.
C27_Witness ==
    \E s \in DOMAIN symCalls :
        /\ symCalls[s].symbol = "-/-\\-"
        /\ symCalls[s].payload = EmptyPayload
        /\ symCalls[s].pc = "returned"
        /\ Len(StepCalls(s)) = 5
        /\ \A k \in 1..5 : symCalls[StepCalls(s)[k]].result.success
        /\ \E c \in DOMAIN symCalls : c > s /\ symCalls[c].parent = 0

\* The records of the history that invocation s and the invocations of its
\* loop pushed, by symbol.
FamilySymbols(s) ==
    LET own == SelectSeq(getCommandHistory,
                         LAMBDA r : r.call = s \/ symCalls[r.call].parent = s)
    IN  [i \in 1..Len(own) |-> own[i].symbol]

IsSuffix(a, b) == Len(a) <= Len(b) /\ a = SubSeq(b, Len(b) - Len(a) + 1, Len(b))

Returned == {c \in DOMAIN symCalls : symCalls[c].pc = "returned"}

\* C30 (states): no invocation threw; an invocation with a symbol that is
\* none of the six, or with a symbol whose handler raised an error (a
\* handler that reads the payload, called without one), returned success =
\* false; and of a returned invocation with the super symbol the history
\* holds the six records *, #, ´, CLaK:, <<RE:UNITY>>, -/-\- in this order,
\* or the last of them when clearHistory removed records meanwhile.
C30_Records ==
    /\ \A c \in DOMAIN symCalls : symCalls[c].pc # "threw"
    /\ \A c \in Returned :
          \/ symCalls[c].symbol \notin {"*", "#", "´", "CLaK:", "<<RE:UNITY>>", "-/-\\-"}
          \/ /\ symCalls[c].symbol \in {"*", "#", "´", "CLaK:"}
             /\ ~symCalls[c].payload.defined
          => symCalls[c].result.success = FALSE
    /\ \A s \in Returned :
          symCalls[s].symbol = "-/-\\-" =>
              LET six == <<"*", "#", "´", "CLaK:", "<<RE:UNITY>>", "-/-\\-">>
              IN  /\ IsSuffix(FamilySymbols(s), six)
                  /\ Len(getCommandHistory) = Cardinality(Returned)
                        => FamilySymbols(s) = six

\* C30 (steps): a step in which an invocation returns appends exactly the
\* record of that invocation at the end of what getCommandHistory returns;
\* any other step leaves the history as it is, or is clearHistory and
\* empties it.
C30_Append ==
    LET returns == {c \in DOMAIN symCalls' :
                       /\ symCalls'[c].pc = "returned"
                       /\ c \in DOMAIN symCalls => symCalls[c].pc # "returned"}
    IN  \/ /\ returns = {}
           /\ getCommandHistory' = getCommandHistory
        \/ /\ returns = {}
           /\ getCommandHistory' = << >>
           /\ symCalls' = symCalls
           /\ microtasks' = microtasks
        \/ \E c \in returns :
              /\ returns = {c}
              /\ getCommandHistory' =
                    Append(getCommandHistory,
                           [symbol |-> symCalls'[c].symbol, payload |-> symCalls'[c].payload,
                            result |-> symCalls'[c].result, call |-> c])

\* C30: every executeSymbol call never throws and appends exactly one
\* record for itself to the command history, whether the symbol is known,
\* unknown or its handler raised an error (success = false in the last two
\* cases); a super-symbol call adds six records, the five constituent
\* symbols in execution order followed by its own; clearHistory is the only
\* operation that removes records, and getCommandHistory returns the
\* records in append order.
C30_History == []C30_Records /\ [][C30_Append]_vars

\* A super symbol called without payload has returned with its six records
\* in the history, four of them of handlers that raised an error, and the
\* other caller's unknown symbol is recorded between them.
C30_Witness ==
    \E s \in Returned, u \in Returned :
        /\ symCalls[s].symbol = "-/-\\-"
        /\ symCalls[s].payload = NoPayload
        /\ FamilySymbols(s) = <<"*", "#", "´", "CLaK:", "<<RE:UNITY>>", "-/-\\-">>
        /\ symCalls[u].symbol = UnknownSymbol
        /\ \E i \in 2..(Len(commandHistory) - 1) :
              /\ commandHistory[i].call = u
              /\ commandHistory[i].result.success = FALSE
              /\ commandHistory[i - 1].result.message[1] = "Error executing symbol "
              /\ commandHistory[i + 1].symbol # UnknownSymbol

====
